---- MODULE Spec2Model ----
(***************************************************************************)
(* Crong Trader: the cycle scheduler (main), one trade (tradingCycle) and  *)
(* the exchange, store and mirror it talks to.                             *)
(*                                                                         *)
(* Strings of the source that are not ASCII are written as follows:        *)
(*   order_status  '거래전' = "PENDING", '매수주문발송' = "BUY_SENT",      *)
(*                 '매수완료' = "BOUGHT", '매도완료' = "CLOSED"            *)
(*   trade result  '익절' = "TAKE_PROFIT", '손절' = "STOP_LOSS",           *)
(*                 '시간초과' = "TIMEOUT", 'error' = "error"               *)
(***************************************************************************)
EXTENDS Naturals, Integers, Sequences, FiniteSets, TLC

(***************************************************************************)
(* Bounds of the model.                                                    *)
(***************************************************************************)
\* config.TRADE.ORDER_TIMEOUT counted in 1 s poll intervals
ORDER_TIMEOUT == 2
\* MAX_CYCLE_TIME counted in ticks of the episode clock
MAX_CYCLE_TIME == 2
\* markets in a listing of the exchange
MaxMarkets == 3
\* markets.slice(0, 30) of scanPairs, scaled
TOP_N == 2
\* markets.slice(0, 10) of getPairDetails, scaled
DETAIL_N == 2
\* the candidates scanPairs returns to main
MaxCandidates == 1
\* rows the trades table may hold before the scheduler stops trading
MaxTrades == 3
\* last-trade prices and plan prices range over 1..MaxPrice
MaxPrice == 4
\* volume of one full buy (SEED_MONEY worth), in lots the exchange fills one at a time
FULL_VOLUME == 2
\* the window of calculateRSI, calculateSMA, calculateBollinger and
\* calculateEMA (14 and 20 by default in the source)
PERIOD == 2
\* the two windows of calculateMACD (12 and 26 in the source)
MACD_FAST == 2
MACD_SLOW == 3
\* the longest price series
MaxSeries == 4
\* the weeks a process runs through
MaxWeeks == 2
\* the saveTradeToNotion calls of a process
MaxSaves == 3

(***************************************************************************)
(* Program constants.                                                      *)
(***************************************************************************)
\* the breaker threshold: consecutiveLosses >= 2
LOSS_LIMIT == 2
\* config.SCAN.MIN_VOLATILITY, in percent
MIN_VOLATILITY == 5

Prices == 1..MaxPrice
\* the buy price the oracle plans
PlanBuyPrices == {2}
\* the price field of an order reply: 0 when the reply holds no price
ReplyPrices == {0, 2}
Null == "null"
NoOrder == [state |-> "none", executed_volume |-> 0, volume |-> 0]
NoInfo == [state |-> "none", price |-> 0, executed_volume |-> 0]
NoPlan == [buyPrice |-> 0, takeProfit |-> 0, stopLoss |-> 0]
NoResult == [result |-> "none", profitRate |-> 0]

\* a field the oracle's reply does not hold (undefined)
Undefined == -1
\* the confidence threshold 0.5 of llm.selectBestPair, in tenths
MIN_CONFIDENCE == 5
\* confidence values of a reply, in tenths
Confidences == {Undefined, 3, 5}
\* a reply in which no object is found or whose object does not parse
NoObject == [kind |-> "none", noEntry |-> FALSE, confidence |-> Undefined, selectedPair |-> FALSE]
\* the reply {"noEntry": true, "reason": ...}
NoEntryReply == [kind |-> "object", noEntry |-> TRUE, confidence |-> Undefined, selectedPair |-> FALSE]
\* the oracle's replies to the selection prompt; selectedPair tells whether
\* the object holds that field
SelectionReplies ==
  {NoObject, NoEntryReply} \cup
  [kind : {"object"}, noEntry : {FALSE}, confidence : Confidences, selectedPair : BOOLEAN]
\* the plans the oracle's reply to the price prompt may hold: the three
\* prices, or an object in which prices are missing or not numbers
NumericPlans == [buyPrice : PlanBuyPrices, takeProfit : Prices, stopLoss : Prices]
NoExitPlan == [buyPrice |-> 2, takeProfit |-> Undefined, stopLoss |-> Undefined]
NoBuyPlan == [buyPrice |-> Undefined, takeProfit |-> 3, stopLoss |-> 1]
\* the oracle's replies to the price prompt
AnalysisReplies ==
  {[kind |-> "none", plan |-> NoPlan]} \cup
  [kind : {"object"}, plan : NumericPlans \cup {NoExitPlan, NoBuyPlan}]
NoVerdict == [kind |-> "unset", noEntry |-> FALSE, confidence |-> Undefined, selectedPair |-> FALSE]
\* the markets of the list scanPairs returns to main
Candidates == 1..MaxCandidates
\* a market name that is not in that list
Unlisted == 0
\* the market names a reply may hold in selectedPair
MarketNames == Candidates \cup {Unlisted}

VARIABLES
  pc,                 \* position of main / tradingCycle
  isRunning,          \* index.js:54
  consecutiveLosses,  \* index.js:441
  cycleElapsed,       \* Date.now() - cycleStartTime, saturating at MAX_CYCLE_TIME
  tradeResult,        \* value returned by tradingCycle
  plan,               \* tradeAnalysis
  tradeId,            \* id returned by db.createTrade (0: none)
  buyCompleted,       \* index.js:248
  buyElapsed,         \* Date.now() - buyStartTime, saturating at ORDER_TIMEOUT
  orderInfo,          \* index.js:249
  buyPrice,           \* index.js:275
  executedVolume,     \* index.js:276
  sellReason,         \* index.js:291
  lastPrice,          \* price of the last ticker poll of the monitoring loop
  sellOrderInfo,      \* index.js:332
  trades,             \* rows of the trades table: order_status by id
  limitOrd,           \* the limit buy order on the exchange
  mktOrd,             \* the fallback market buy order on the exchange
  sellOrd,            \* the market sell order on the exchange
  own,                \* volume held that this tradingCycle invocation bought
  carried,            \* the account holds volume that an earlier invocation bought
  calls,              \* history: calls made by the current tradingCycle invocation
  outcomes,           \* history: results of the trades of the current episode
  trail,              \* history: what main did since the last trade returned, up to the next scan
  verdict,            \* history: the oracle's reply to the last pair selection, until the
                      \* next pass of the outer loop or the first trade of the episode
  lastSleep,          \* history: the sleep main has just finished, until the next pass of the outer loop
  signalled,          \* history: a shutdown signal has arrived and main has not passed a
                      \* loop checkpoint since
  pairsData,          \* index.js:423, the markets of the details, until the find of
                      \* line 438 (it is not read after it)
  pairDetail,         \* index.js:438
  fnIn,               \* argument of the function under test (function specifications only)
  fnOut,              \* its result
  weeklyDbCache,      \* part_001:28, the cached container id by week label (0: none)
  week,               \* the week label getWeekRange returns now
  databases,          \* the mirror: number of weekly containers by title on the parent page
  pages,              \* the mirror: number of entries by week label of their container
  notionLog           \* history: the requests of the last saveTradeToNotion call, how it
                      \* ended, and the creation requests that succeeded so far

mainVars == <<isRunning, consecutiveLosses, cycleElapsed, tradeResult>>
tradeVars == <<plan, tradeId, buyCompleted, buyElapsed, orderInfo, buyPrice,
               executedVolume, sellReason, lastPrice, sellOrderInfo>>
exchVars == <<limitOrd, mktOrd, sellOrd, own, carried>>
histVars == <<calls, outcomes, trail>>
selVars == <<verdict, lastSleep>>
scanVars == <<pairsData, pairDetail>>
notionVars == <<weeklyDbCache, week, databases, pages, notionLog>>
fnVars == <<fnIn, fnOut, notionVars>>
auxVars == <<selVars, scanVars, fnVars, signalled>>
vars == <<pc, mainVars, tradeVars, trades, exchVars, histVars, auxVars>>

Min(a, b) == IF a < b THEN a ELSE b

\* main's history stops growing once the next scan has been recorded
Record(t, op) == IF Len(t) > 0 /\ t[Len(t)] = "scanPairs" THEN t ELSE Append(t, op)

\* the program's variables before main has run
Fresh ==
  /\ isRunning = FALSE
  /\ consecutiveLosses = 0
  /\ cycleElapsed = 0
  /\ tradeResult = NoResult
  /\ plan = NoPlan
  /\ tradeId = 0
  /\ buyCompleted = FALSE
  /\ buyElapsed = 0
  /\ orderInfo = NoInfo
  /\ buyPrice = 0
  /\ executedVolume = 0
  /\ sellReason = ""
  /\ lastPrice = 0
  /\ sellOrderInfo = NoInfo
  /\ trades = <<>>
  /\ limitOrd = NoOrder
  /\ mktOrd = NoOrder
  /\ sellOrd = NoOrder
  /\ own = 0
  /\ carried = FALSE
  /\ calls = <<>>
  /\ outcomes = <<>>
  /\ trail = <<>>
  /\ verdict = NoVerdict
  /\ lastSleep = "none"
  /\ signalled = FALSE
  /\ pairsData = {}
  /\ pairDetail = Undefined

\* the week labels of a run, in order
Weeks == 1..MaxWeeks
\* no container id
NoId == 0
NoLog == [requests |-> <<>>, ended |-> "none", created |-> [l \in Weeks |-> 0]]

\* the mirror module before its first call, with an empty parent page
NotionFresh ==
  /\ weeklyDbCache = [l \in Weeks |-> NoId]
  /\ week = 1
  /\ databases = [l \in Weeks |-> 0]
  /\ pages = [l \in Weeks |-> 0]
  /\ notionLog = NoLog

Init ==
  /\ pc = "start"
  /\ Fresh
  /\ fnIn = Null
  /\ fnOut = Null
  /\ NotionFresh

(***************************************************************************)
(* main                                                                    *)
(***************************************************************************)

\* db.initDB and getInputFromMaster; a failure goes to main's outer catch
\* and then to finally
StartMain ==
  /\ pc = "start"
  /\ \/ /\ isRunning' = TRUE
        /\ pc' = "outer"
     \/ /\ pc' = "fatal"
        /\ UNCHANGED isRunning
  /\ UNCHANGED <<consecutiveLosses, cycleElapsed, tradeResult, tradeVars, trades,
                 exchVars, histVars, auxVars>>

\* while (isRunning)
OuterLoop ==
  /\ pc = "outer"
  /\ pc' = IF isRunning THEN "scan" ELSE "finally"
  /\ verdict' = NoVerdict
  /\ lastSleep' = "none"
  /\ signalled' = FALSE
  /\ pairsData' = {}
  /\ pairDetail' = Undefined
  /\ UNCHANGED <<mainVars, tradeVars, trades, exchVars, histVars, fnVars>>

\* scanPairs: throws, returns no pair, or returns candidates
ScanPairs ==
  /\ pc = "scan"
  /\ trail' = Record(trail, "scanPairs")
  /\ \E r \in {"throw", "empty", "pairs"} :
       pc' = CASE r = "throw" -> "cycleError"
               [] r = "empty" -> "emptySleep"
               [] OTHER -> "details"
  /\ UNCHANGED <<mainVars, tradeVars, trades, exchVars, calls, outcomes, auxVars>>

\* EmptySleep with the empty candidate list handed on to the detail fetch
EmptySleepFallsThrough ==
  /\ pc = "emptySleep"
  /\ pc' = "details"
  /\ UNCHANGED <<mainVars, tradeVars, trades, exchVars, histVars, auxVars>>

\* sleep(5 * 60 * 1000); continue
EmptySleep ==
  /\ pc = "emptySleep"
  /\ pc' = "outer"
  /\ trail' = Record(trail, "sleep(300000)")
  /\ lastSleep' = "sleep(300000)"
  /\ UNCHANGED <<mainVars, tradeVars, trades, exchVars, calls, outcomes, verdict, scanVars, fnVars,
                 signalled>>

\* const pairsData = await getPairDetails(filteredPairs): getPairDetails
\* catches every per-pair failure and returns the details of the candidates
\* whose three fetches succeeded, which may be none of them
GetPairDetails ==
  /\ pc = "details"
  /\ pc' = "select"
  /\ trail' = Record(trail, "getPairDetails")
  /\ \E fetched \in SUBSET Candidates : pairsData' = fetched
  /\ UNCHANGED <<mainVars, tradeVars, trades, exchVars, calls, outcomes, selVars, pairDetail,
                 fnVars, signalled>>

\* a < b of the source when a may be undefined: the comparison is then false
JsLess(a, b) == a # Undefined /\ a < b

\* a >= b and a <= b of the source when a side may be undefined or not a number
JsGeq(a, b) == a # Undefined /\ b # Undefined /\ a >= b
JsLeq(a, b) == a # Undefined /\ b # Undefined /\ a <= b

\* llmSelectBestPair taking a reply without an object for an entry
llmSelectBestPairNoParseCheck(reply) ==
  IF reply.noEntry = TRUE THEN Null
  ELSE IF JsLess(reply.confidence, MIN_CONFIDENCE) THEN Null
  ELSE "entry"

\* llm.selectBestPair on the oracle's reply: throws when there is no object,
\* returns null on noEntry: true or a confidence below 0.5, else the object
llmSelectBestPair(reply) ==
  IF reply.kind = "none" THEN "throw"
  ELSE IF reply.noEntry = TRUE THEN Null
  ELSE IF JsLess(reply.confidence, MIN_CONFIDENCE) THEN Null
  ELSE "entry"

\* selectBestPair of index.js: its log line reads result.selectedPair, which
\* throws when llm.selectBestPair returned null
selectBestPair(reply) ==
  LET result == llmSelectBestPair(reply)
  IN  IF result = Null THEN "throw" ELSE result

\* pairsData.find(p => p.market === name): undefined when no detail has the name
Find(details, name) == IF name \in details THEN name ELSE Undefined

\* const bestPair = await selectBestPair(pairsData), then the null test of
\* main: sleep(MAX_CYCLE_TIME) and continue on null, else pairDetail is looked
\* up and the episode starts.  name is the market the reply holds in
\* selectedPair when it holds that field.
SelectBestPair ==
  /\ pc = "select"
  /\ trail' = Record(trail, "selectBestPair")
  /\ \E reply \in SelectionReplies, name \in MarketNames :
       LET bestPair == selectBestPair(reply)
       IN  /\ verdict' = reply
           /\ pc' = CASE bestPair = "throw" -> "cycleError"
                       [] bestPair = Null -> "outer"
                       [] OTHER -> "episode"
           /\ lastSleep' = IF bestPair = Null THEN "sleep(MAX_CYCLE_TIME)" ELSE lastSleep
           /\ pairDetail' = IF bestPair \in {"throw", Null} THEN pairDetail
                            ELSE IF reply.selectedPair THEN Find(pairsData, name)
                            ELSE Undefined
  /\ pairsData' = {}
  /\ UNCHANGED <<mainVars, tradeVars, trades, exchVars, calls, outcomes, fnVars, signalled>>

\* let consecutiveLosses = 0; const cycleStartTime = Date.now()
\* StartEpisode with the loss counter of the earlier episode kept
StartEpisodeKeepsLosses ==
  /\ pc = "episode"
  /\ cycleElapsed' = 0
  /\ outcomes' = <<>>
  /\ pc' = "inner"
  /\ UNCHANGED <<isRunning, consecutiveLosses, tradeResult, tradeVars, trades, exchVars,
                 calls, trail, auxVars>>

StartEpisode ==
  /\ pc = "episode"
  /\ consecutiveLosses' = 0
  /\ cycleElapsed' = 0
  /\ outcomes' = <<>>
  /\ pc' = "inner"
  /\ UNCHANGED <<isRunning, tradeResult, tradeVars, trades, exchVars, calls, trail, auxVars>>

\* CycleError with the error ending the outer loop
CycleErrorEndsMain ==
  /\ pc = "cycleError"
  /\ pc' = "finally"
  /\ UNCHANGED <<mainVars, tradeVars, trades, exchVars, histVars, auxVars>>

\* catch (cycleError): sleep(60000)
CycleError ==
  /\ pc = "cycleError"
  /\ pc' = "outer"
  /\ trail' = Record(trail, "sleep(60000)")
  /\ lastSleep' = "sleep(60000)"
  /\ UNCHANGED <<mainVars, tradeVars, trades, exchVars, calls, outcomes, verdict, scanVars, fnVars,
                 signalled>>

\* finally: db.closeDB
Finally ==
  /\ pc = "finally"
  /\ pc' = "done"
  /\ UNCHANGED <<mainVars, tradeVars, trades, exchVars, histVars, auxVars>>

\* FatalError with the cleanup left out
FatalErrorSkipsCleanup ==
  /\ pc = "fatal"
  /\ pc' = "done"
  /\ UNCHANGED <<mainVars, tradeVars, trades, exchVars, histVars, auxVars>>

\* catch (error) of main: an error thrown outside the loop's own try, which
\* is a failure of db.initDB, is logged; control falls into finally.
FatalError ==
  /\ pc = "fatal"
  /\ pc' = "finally"
  /\ UNCHANGED <<mainVars, tradeVars, trades, exchVars, histVars, auxVars>>

\* SIGINT / SIGTERM: the handler only clears isRunning. It is installed
\* before main is called, so a signal may arrive while main is still in
\* db.initDB.
Signal ==
  /\ pc # "done"
  /\ isRunning \/ pc = "start"
  /\ ~signalled
  /\ isRunning' = FALSE
  /\ signalled' = TRUE
  /\ UNCHANGED <<pc, consecutiveLosses, cycleElapsed, tradeResult, tradeVars, trades,
                 exchVars, histVars, selVars, scanVars, fnVars>>

(***************************************************************************)
(* tradingCycle                                                            *)
(***************************************************************************)

TradePcs == {"tc_fetch", "tc_analyze", "tc_parseError", "tc_create", "tc_buyLimit", "tc_sent", "tc_poll",
             "tc_cancel", "tc_buyMarket", "tc_settle", "tc_bought", "tc_monitor",
             "tc_sell", "tc_confirm", "tc_confirm2", "tc_close", "tc_notion", "tc_catch"}

\* the locals of tradingCycle are gone once it has left its try block
DropLocals ==
  /\ plan' = NoPlan
  /\ tradeId' = 0
  /\ buyCompleted' = FALSE
  /\ buyElapsed' = 0
  /\ orderInfo' = NoInfo
  /\ buyPrice' = 0
  /\ executedVolume' = 0
  /\ sellReason' = ""
  /\ lastPrice' = 0
  /\ sellOrderInfo' = NoInfo
  /\ calls' = <<>>

\* OnThrow with the mirror call placed after the try block
OnThrowMirrorOutsideTry(step) ==
  IF step = "saveTradeToNotion" THEN "cycleError" ELSE "tc_catch"

\* where control goes when the call named step throws: every call of
\* tradingCycle sits inside its try block
OnThrow(step) == "tc_catch"

\* the call named step throws
Throw(step) ==
  /\ pc' = OnThrow(step)
  /\ DropLocals

\* what upbit.getOrder reports of an order; p is the price field of the reply
OrderReply(o, p) == [state |-> o.state, price |-> p, executed_volume |-> o.executed_volume]

\* CycleOpen without the clock test
CycleOpenIgnoresClock(elapsed, running) == running

\* the condition of the trade loop: Date.now() - cycleStartTime < MAX_CYCLE_TIME && isRunning
CycleOpen(elapsed, running) == elapsed < MAX_CYCLE_TIME /\ running

\* while (Date.now() - cycleStartTime < MAX_CYCLE_TIME && isRunning): the next
\* trade starts, or the episode is over. What a former invocation bought and
\* did not sell stays in the account; what is still unfilled of its orders
\* when the next trade starts is never filled.
InnerLoop ==
  /\ pc = "inner"
  /\ IF CycleOpen(cycleElapsed, isRunning)
       THEN /\ Len(trades) < MaxTrades
            /\ pc' = "tc_fetch"
            /\ limitOrd' = NoOrder
            /\ mktOrd' = NoOrder
            /\ sellOrd' = NoOrder
            /\ carried' = (carried \/ own > 0)
            /\ own' = 0
            /\ trail' = <<>>
            /\ verdict' = NoVerdict
       ELSE /\ pc' = "outer"
            /\ UNCHANGED <<exchVars, trail, verdict>>
  /\ signalled' = FALSE
  /\ UNCHANGED <<mainVars, tradeVars, trades, calls, outcomes, lastSleep, scanVars, fnVars>>

\* upbit.getCandles, upbit.getOrderbook, upbit.getTicker, ticker[0].trade_price
FetchMarket ==
  /\ pc = "tc_fetch"
  /\ \/ /\ pc' = "tc_analyze"
        /\ calls' = calls \o <<"getCandles", "getOrderbook", "getTicker">>
        /\ UNCHANGED tradeVars
     \/ Throw("getTicker")
  /\ UNCHANGED <<mainVars, trades, exchVars, outcomes, trail, auxVars>>

\* llm.analyzeTradePrices on the oracle's reply: throws when there is no
\* object, else returns the object as it is
llmAnalyzeTradePrices(reply) ==
  IF reply.kind = "none" THEN "throw" ELSE "plan"

\* tradeAnalysis = await llm.analyzeTradePrices(...): askLLM fails, or the
\* reply is parsed
AnalyzeTradePrices ==
  /\ pc = "tc_analyze"
  /\ \/ \E reply \in AnalysisReplies :
          /\ plan' = IF llmAnalyzeTradePrices(reply) = "throw" THEN plan ELSE reply.plan
          /\ pc' = IF llmAnalyzeTradePrices(reply) = "throw" THEN "tc_parseError" ELSE "tc_create"
          /\ calls' = Append(calls, "analyzeTradePrices")
          /\ UNCHANGED <<tradeId, buyCompleted, buyElapsed, orderInfo, buyPrice,
                         executedVolume, sellReason, lastPrice, sellOrderInfo>>
     \/ Throw("askLLM")
  /\ UNCHANGED <<mainVars, trades, exchVars, outcomes, trail, auxVars>>

\* the catch block of llm.analyzeTradePrices logs the reply and throws again
RethrowParseError ==
  /\ pc = "tc_parseError"
  /\ Throw("analyzeTradePrices")
  /\ UNCHANGED <<mainVars, trades, exchVars, outcomes, trail, auxVars>>

\* db.createTrade: INSERT with order_status PENDING, returns the new id
CreateTrade ==
  /\ pc = "tc_create"
  /\ \/ /\ trades' = Append(trades, "PENDING")
        /\ tradeId' = Len(trades) + 1
        /\ pc' = "tc_buyLimit"
        /\ calls' = Append(calls, "createTrade")
        /\ UNCHANGED <<plan, buyCompleted, buyElapsed, orderInfo, buyPrice,
                       executedVolume, sellReason, lastPrice, sellOrderInfo>>
     \/ /\ Throw("createTrade")
        /\ UNCHANGED trades
  /\ UNCHANGED <<mainVars, exchVars, outcomes, trail, auxVars>>

\* upbit.buyLimit(market, tradeAnalysis.buyPrice, buyVolume): price.toString()
\* throws when the plan holds no buy price
BuyLimit ==
  /\ pc = "tc_buyLimit"
  /\ \/ /\ plan.buyPrice # Undefined
        /\ limitOrd' = [state |-> "wait", executed_volume |-> 0, volume |-> FULL_VOLUME]
        /\ pc' = "tc_sent"
        /\ calls' = Append(calls, "buyLimit")
        /\ UNCHANGED tradeVars
     \/ /\ Throw("buyLimit")
        /\ UNCHANGED limitOrd
  /\ UNCHANGED <<mainVars, trades, mktOrd, sellOrd, own, carried, outcomes, trail, auxVars>>

\* UpdateBuyOrderSent writing the status of a completed buy
UpdateBuyOrderSentWritesBought ==
  /\ pc = "tc_sent"
  /\ \/ /\ trades' = [trades EXCEPT ![tradeId] = "BOUGHT"]
        /\ pc' = "tc_poll"
        /\ calls' = Append(calls, "updateBuyOrderSent")
        /\ UNCHANGED tradeVars
     \/ /\ Throw("updateBuyOrderSent")
        /\ UNCHANGED trades
  /\ UNCHANGED <<mainVars, exchVars, outcomes, trail, auxVars>>

\* db.updateBuyOrderSent
UpdateBuyOrderSent ==
  /\ pc = "tc_sent"
  /\ \/ /\ trades' = [trades EXCEPT ![tradeId] = "BUY_SENT"]
        /\ pc' = "tc_poll"
        /\ calls' = Append(calls, "updateBuyOrderSent")
        /\ UNCHANGED tradeVars
     \/ /\ Throw("updateBuyOrderSent")
        /\ UNCHANGED trades
  /\ UNCHANGED <<mainVars, exchVars, outcomes, trail, auxVars>>

\* PollBuyOrder with the loop entered once more when ORDER_TIMEOUT has elapsed
PollBuyOrderPastTimeout ==
  /\ pc = "tc_poll"
  /\ ~buyCompleted /\ buyElapsed <= ORDER_TIMEOUT
  /\ \/ /\ orderInfo' = OrderReply(limitOrd, plan.buyPrice)
        /\ calls' = Append(calls, "getOrder(limit)")
        /\ IF limitOrd.state \in {"done", "cancel"}
             THEN /\ buyCompleted' = (limitOrd.state = "done")
                  /\ pc' = IF limitOrd.state = "done" THEN "tc_bought" ELSE "tc_cancel"
                  /\ UNCHANGED buyElapsed
             ELSE /\ buyElapsed' = Min(buyElapsed + 1, ORDER_TIMEOUT)
                  /\ pc' = "tc_poll"
                  /\ UNCHANGED buyCompleted
        /\ UNCHANGED <<plan, tradeId, buyPrice, executedVolume, sellReason, lastPrice,
                       sellOrderInfo>>
     \/ Throw("getOrder")
  /\ UNCHANGED <<mainVars, trades, exchVars, outcomes, trail, auxVars>>

\* PollBuyOrder with a filled order treated like a cancelled one
PollBuyOrderDoneFallsBack ==
  /\ pc = "tc_poll"
  /\ ~buyCompleted /\ buyElapsed < ORDER_TIMEOUT
  /\ \/ /\ orderInfo' = OrderReply(limitOrd, plan.buyPrice)
        /\ calls' = Append(calls, "getOrder(limit)")
        /\ IF limitOrd.state \in {"done", "cancel"}
             THEN /\ pc' = "tc_cancel"
                  /\ UNCHANGED <<buyElapsed, buyCompleted>>
             ELSE /\ buyElapsed' = buyElapsed + 1
                  /\ pc' = "tc_poll"
                  /\ UNCHANGED buyCompleted
        /\ UNCHANGED <<plan, tradeId, buyPrice, executedVolume, sellReason, lastPrice,
                       sellOrderInfo>>
     \/ Throw("getOrder")
  /\ UNCHANGED <<mainVars, trades, exchVars, outcomes, trail, auxVars>>

\* one round of the buy-fill loop: upbit.getOrder on the limit order, then
\* break on done / cancel or sleep(1000)
PollBuyOrder ==
  /\ pc = "tc_poll"
  /\ ~buyCompleted /\ buyElapsed < ORDER_TIMEOUT
  /\ \/ /\ orderInfo' = OrderReply(limitOrd, plan.buyPrice)
        /\ calls' = Append(calls, "getOrder(limit)")
        /\ IF limitOrd.state \in {"done", "cancel"}
             THEN /\ buyCompleted' = (limitOrd.state = "done")
                  /\ pc' = IF limitOrd.state = "done" THEN "tc_bought" ELSE "tc_cancel"
                  /\ UNCHANGED buyElapsed
             ELSE /\ buyElapsed' = buyElapsed + 1
                  /\ pc' = "tc_poll"
                  /\ UNCHANGED buyCompleted
        /\ UNCHANGED <<plan, tradeId, buyPrice, executedVolume, sellReason, lastPrice,
                       sellOrderInfo>>
     \/ Throw("getOrder")
  /\ UNCHANGED <<mainVars, trades, exchVars, outcomes, trail, auxVars>>

\* the buy-fill loop ends because ORDER_TIMEOUT has elapsed
PollTimeout ==
  /\ pc = "tc_poll"
  /\ ~(~buyCompleted /\ buyElapsed < ORDER_TIMEOUT)
  /\ pc' = "tc_cancel"
  /\ UNCHANGED <<mainVars, tradeVars, trades, exchVars, histVars, auxVars>>

\* CancelOrder with the cancel request left out before the market buy
CancelOrderLeftOut ==
  /\ pc = "tc_cancel"
  /\ ~buyCompleted
  /\ pc' = "tc_buyMarket"
  /\ UNCHANGED <<mainVars, tradeVars, trades, exchVars, histVars, auxVars>>

\* if (!buyCompleted): upbit.cancelOrder on the limit order
CancelOrder ==
  /\ pc = "tc_cancel"
  /\ ~buyCompleted
  /\ \/ /\ limitOrd' = IF limitOrd.state = "wait"
                         THEN [limitOrd EXCEPT !.state = "cancel"] ELSE limitOrd
        /\ pc' = "tc_buyMarket"
        /\ calls' = Append(calls, "cancelOrder")
        /\ UNCHANGED tradeVars
     \/ /\ Throw("cancelOrder")
        /\ UNCHANGED limitOrd
  /\ UNCHANGED <<mainVars, trades, mktOrd, sellOrd, own, carried, outcomes, trail, auxVars>>

\* upbit.buyMarket(market, SEED_MONEY)
BuyMarket ==
  /\ pc = "tc_buyMarket"
  /\ \/ /\ mktOrd' = [state |-> "wait", executed_volume |-> 0, volume |-> FULL_VOLUME]
        /\ pc' = "tc_settle"
        /\ calls' = Append(calls, "buyMarket(SEED_MONEY)")
        /\ UNCHANGED tradeVars
     \/ /\ Throw("buyMarket")
        /\ UNCHANGED mktOrd
  /\ UNCHANGED <<mainVars, trades, limitOrd, sellOrd, own, carried, outcomes, trail, auxVars>>

\* sleep(2000); orderInfo = upbit.getOrder(marketBuyOrder.uuid)
SettleMarketBuy ==
  /\ pc = "tc_settle"
  /\ \/ /\ \E p \in ReplyPrices : orderInfo' = OrderReply(mktOrd, p)
        /\ pc' = "tc_bought"
        /\ calls' = calls \o <<"sleep(2000)", "getOrder(market)">>
        /\ UNCHANGED <<plan, tradeId, buyCompleted, buyElapsed, buyPrice, executedVolume,
                       sellReason, lastPrice, sellOrderInfo>>
     \/ Throw("getOrder")
  /\ UNCHANGED <<mainVars, trades, exchVars, outcomes, trail, auxVars>>

\* buyPrice = parseFloat(orderInfo.price) || tradeAnalysis.buyPrice,
\* executedVolume = parseFloat(orderInfo.executed_volume), db.updateBuyComplete.
\* Of orderInfo only created_at is read after this step, and buyCompleted and
\* buyStartTime are not read again.
UpdateBuyComplete ==
  /\ pc = "tc_bought"
  /\ \/ /\ buyPrice' = IF orderInfo.price # 0 THEN orderInfo.price ELSE plan.buyPrice
        /\ executedVolume' = orderInfo.executed_volume
        /\ trades' = [trades EXCEPT ![tradeId] = "BOUGHT"]
        /\ pc' = "tc_monitor"
        /\ calls' = Append(calls, "updateBuyComplete")
        /\ orderInfo' = NoInfo
        /\ buyCompleted' = FALSE
        /\ buyElapsed' = 0
        /\ UNCHANGED <<plan, tradeId, sellReason, lastPrice, sellOrderInfo>>
     \/ /\ Throw("updateBuyComplete")
        /\ UNCHANGED trades
  /\ UNCHANGED <<mainVars, exchVars, outcomes, trail, auxVars>>

\* Trigger with the stop-loss test made first
TriggerStopLossFirst(price, p) ==
  IF JsLeq(price, p.stopLoss) THEN "STOP_LOSS"
  ELSE IF JsGeq(price, p.takeProfit) THEN "TAKE_PROFIT"
  ELSE ""

\* the exit test of the monitoring loop: "" while no exit is due
Trigger(price, p) ==
  IF JsGeq(price, p.takeProfit) THEN "TAKE_PROFIT"
  ELSE IF JsLeq(price, p.stopLoss) THEN "STOP_LOSS"
  ELSE ""

\* one round of the monitoring loop: upbit.getTicker, the two exit tests,
\* sleep(500) when neither holds
MonitorPrice ==
  /\ pc = "tc_monitor"
  /\ \/ /\ \E price \in Prices :
             /\ lastPrice' = price
             /\ sellReason' = Trigger(price, plan)
             /\ pc' = IF Trigger(price, plan) # "" THEN "tc_sell" ELSE "tc_monitor"
        /\ UNCHANGED <<plan, tradeId, buyCompleted, buyElapsed, orderInfo, buyPrice,
                       executedVolume, sellOrderInfo, calls>>
     \/ Throw("getTicker")
  /\ UNCHANGED <<mainVars, trades, exchVars, outcomes, trail, auxVars>>

\* upbit.sellMarket(market, executedVolume). The plan and the polled price
\* are not read again.
SellMarket ==
  /\ pc = "tc_sell"
  /\ \/ /\ sellOrd' = [state |-> "wait", executed_volume |-> 0, volume |-> executedVolume]
        /\ pc' = "tc_confirm"
        /\ calls' = Append(calls, "sellMarket")
        /\ plan' = NoPlan
        /\ lastPrice' = 0
        /\ UNCHANGED <<tradeId, buyCompleted, buyElapsed, orderInfo, buyPrice,
                       executedVolume, sellReason, sellOrderInfo>>
     \/ /\ Throw("sellMarket")
        /\ UNCHANGED sellOrd
  /\ UNCHANGED <<mainVars, trades, limitOrd, mktOrd, own, carried, outcomes, trail, auxVars>>

\* sleep(2000); sellOrderInfo = upbit.getOrder(sellOrder.uuid)
ConfirmSell ==
  /\ pc = "tc_confirm"
  /\ \/ /\ \E p \in ReplyPrices : sellOrderInfo' = OrderReply(sellOrd, p)
        /\ pc' = IF sellOrd.state # "done" THEN "tc_confirm2" ELSE "tc_close"
        /\ calls' = calls \o <<"sleep(2000)", "getOrder(sell)">>
        /\ UNCHANGED <<plan, tradeId, buyCompleted, buyElapsed, orderInfo, buyPrice,
                       executedVolume, sellReason, lastPrice>>
     \/ Throw("getOrder")
  /\ UNCHANGED <<mainVars, trades, exchVars, outcomes, trail, auxVars>>

\* if (sellOrderInfo.state !== 'done'): sleep(3000) and one more upbit.getOrder
ReconfirmSell ==
  /\ pc = "tc_confirm2"
  /\ \/ /\ \E p \in ReplyPrices : sellOrderInfo' = OrderReply(sellOrd, p)
        /\ pc' = "tc_close"
        /\ calls' = calls \o <<"sleep(3000)", "getOrder(sell)">>
        /\ UNCHANGED <<plan, tradeId, buyCompleted, buyElapsed, orderInfo, buyPrice,
                       executedVolume, sellReason, lastPrice>>
     \/ Throw("getOrder")
  /\ UNCHANGED <<mainVars, trades, exchVars, outcomes, trail, auxVars>>

\* feeRate is counted in units of 0.0001 (FeeUnit to one); the default of
\* calculateProfitRate is 0.0005
FeeUnit == 10000
DEFAULT_FEE_RATE == 5

\* calculateProfitRate with the fee charged on the sell leg only
calculateProfitRateSellFeeOnly(buy, sell, feeRate) ==
  LET sellFee == sell * feeRate
      profit == sell * FeeUnit - buy * FeeUnit - sellFee
  IN  (profit * 100) \div buy

\* calculateProfitRate; prices are whole numbers, the fees and the profit are
\* in units of 0.0001 and the rate returned is in units of 0.0001 %
calculateProfitRate(buy, sell, feeRate) ==
  LET buyFee == buy * feeRate
      sellFee == sell * feeRate
      profit == sell * FeeUnit - buy * FeeUnit - buyFee - sellFee
  IN  (profit * 100) \div buy

\* sellPrice = parseFloat(sellOrderInfo.price) || ... || 0, db.updateSellComplete
UpdateSellComplete ==
  /\ pc = "tc_close"
  /\ \/ /\ trades' = [trades EXCEPT ![tradeId] = "CLOSED"]
        /\ pc' = "tc_notion"
        /\ calls' = Append(calls, "updateSellComplete")
        /\ UNCHANGED tradeVars
     \/ /\ Throw("updateSellComplete")
        /\ UNCHANGED trades
  /\ UNCHANGED <<mainVars, exchVars, outcomes, trail, auxVars>>

\* notion.saveTradeToNotion, then return { result: sellReason, profitRate }
SaveTradeToNotion ==
  /\ pc = "tc_notion"
  /\ \/ /\ tradeResult' = [result |-> sellReason,
                           profitRate |-> calculateProfitRate(buyPrice, sellOrderInfo.price, DEFAULT_FEE_RATE)]
        /\ pc' = "main_result"
        /\ calls' = Append(calls, "saveTradeToNotion")
        /\ UNCHANGED tradeVars
     \/ /\ Throw("saveTradeToNotion")
        /\ UNCHANGED tradeResult
  /\ UNCHANGED <<isRunning, consecutiveLosses, cycleElapsed, trades, exchVars, outcomes,
                 trail, auxVars>>

\* catch (error): sleep(5000); return { result: 'error', profitRate: 0 }
CatchError ==
  /\ pc = "tc_catch"
  /\ tradeResult' = [result |-> "error", profitRate |-> 0]
  /\ pc' = "main_result"
  /\ UNCHANGED <<isRunning, consecutiveLosses, cycleElapsed, tradeVars, trades, exchVars,
                 histVars, auxVars>>

(***************************************************************************)
(* main: the circuit breaker                                               *)
(***************************************************************************)

\* Breaker without the reset of the counter on a take-profit
BreakerNoReset(losses, result) ==
  CASE result = "STOP_LOSS" ->
         [losses |-> losses + 1,
          decision |-> IF losses + 1 >= LOSS_LIMIT THEN "suspend" ELSE "continue"]
    [] result = "TAKE_PROFIT" -> [losses |-> losses, decision |-> "continue"]
    [] result \in {"TIMEOUT", "error"} -> [losses |-> losses, decision |-> "break"]
    [] OTHER -> [losses |-> losses, decision |-> "continue"]

\* Breaker without the break on an error result
BreakerErrorContinues(losses, result) ==
  CASE result = "STOP_LOSS" ->
         [losses |-> losses + 1,
          decision |-> IF losses + 1 >= LOSS_LIMIT THEN "suspend" ELSE "continue"]
    [] result = "TAKE_PROFIT" -> [losses |-> 0, decision |-> "continue"]
    [] OTHER -> [losses |-> losses, decision |-> "continue"]

\* the branches of main on tradeResult.result: the new consecutiveLosses and
\* what the trade loop does next
Breaker(losses, result) ==
  CASE result = "STOP_LOSS" ->
         [losses |-> losses + 1,
          decision |-> IF losses + 1 >= LOSS_LIMIT THEN "suspend" ELSE "continue"]
    [] result = "TAKE_PROFIT" -> [losses |-> 0, decision |-> "continue"]
    [] result \in {"TIMEOUT", "error"} -> [losses |-> losses, decision |-> "break"]
    [] OTHER -> [losses |-> losses, decision |-> "continue"]

\* main takes the value tradingCycle returned
ProcessResult ==
  /\ pc = "main_result"
  /\ LET b == Breaker(consecutiveLosses, tradeResult.result)
     IN  /\ consecutiveLosses' = b.losses
         /\ pc' = CASE b.decision = "suspend" -> "breakerSleep"
                    [] b.decision = "break" -> "outer"
                    [] OTHER -> "pause"
  /\ outcomes' = Append(outcomes, tradeResult.result)
  /\ tradeResult' = NoResult
  /\ DropLocals
  /\ UNCHANGED <<isRunning, cycleElapsed, trades, exchVars, trail, auxVars>>

\* BreakerSleep with the break taken without the sleep
BreakerNoSleep ==
  /\ pc = "breakerSleep"
  /\ pc' = "outer"
  /\ UNCHANGED <<mainVars, tradeVars, trades, exchVars, histVars, auxVars>>

\* sleep(MAX_CYCLE_TIME); break
BreakerSleep ==
  /\ pc = "breakerSleep"
  /\ cycleElapsed' = MAX_CYCLE_TIME
  /\ trail' = Record(trail, "sleep(MAX_CYCLE_TIME)")
  /\ lastSleep' = "sleep(MAX_CYCLE_TIME)"
  /\ pc' = "outer"
  /\ UNCHANGED <<isRunning, consecutiveLosses, tradeResult, tradeVars, trades, exchVars,
                 calls, outcomes, verdict, scanVars, fnVars, signalled>>

\* sleep(1000) between two trades of an episode; the clock main reads next
\* shows the time the trade and the pause took
Pause ==
  /\ pc = "pause"
  /\ cycleElapsed' \in cycleElapsed..MAX_CYCLE_TIME
  /\ trail' = Record(trail, "sleep(1000)")
  /\ pc' = "inner"
  /\ UNCHANGED <<isRunning, consecutiveLosses, tradeResult, tradeVars, trades, exchVars,
                 calls, outcomes, auxVars>>

(***************************************************************************)
(* The exchange                                                            *)
(***************************************************************************)

\* the exchange fills one more lot of the open limit buy
FillLimit ==
  /\ limitOrd.state = "wait"
  /\ limitOrd' = [limitOrd EXCEPT
                    !.executed_volume = @ + 1,
                    !.state = IF limitOrd.executed_volume + 1 = limitOrd.volume
                                THEN "done" ELSE "wait"]
  /\ own' = own + 1
  /\ UNCHANGED <<pc, mainVars, tradeVars, trades, mktOrd, sellOrd, carried, histVars, auxVars>>

\* the open limit buy is cancelled on the exchange side
DropLimit ==
  /\ limitOrd.state = "wait"
  /\ limitOrd' = [limitOrd EXCEPT !.state = "cancel"]
  /\ UNCHANGED <<pc, mainVars, tradeVars, trades, mktOrd, sellOrd, own, carried, histVars, auxVars>>

\* the exchange fills the market buy
FillMarket ==
  /\ mktOrd.state = "wait"
  /\ mktOrd' = [mktOrd EXCEPT !.executed_volume = mktOrd.volume, !.state = "done"]
  /\ own' = own + mktOrd.volume
  /\ UNCHANGED <<pc, mainVars, tradeVars, trades, limitOrd, sellOrd, carried, histVars, auxVars>>

\* the exchange fills the market sell
FillSell ==
  /\ sellOrd.state = "wait"
  /\ sellOrd' = [sellOrd EXCEPT !.executed_volume = Min(sellOrd.volume, own),
                                !.state = "done"]
  /\ own' = own - Min(sellOrd.volume, own)
  /\ UNCHANGED <<pc, mainVars, tradeVars, trades, limitOrd, mktOrd, carried, histVars, auxVars>>

Next ==
  \/ StartMain \/ OuterLoop \/ ScanPairs \/ EmptySleep \/ GetPairDetails
  \/ SelectBestPair \/ StartEpisode \/ CycleError \/ FatalError \/ Finally \/ Signal
  \/ InnerLoop \/ FetchMarket \/ AnalyzeTradePrices
  \/ RethrowParseError \/ CreateTrade \/ BuyLimit
  \/ UpdateBuyOrderSent \/ PollBuyOrder \/ PollTimeout \/ CancelOrder \/ BuyMarket
  \/ SettleMarketBuy \/ UpdateBuyComplete \/ MonitorPrice \/ SellMarket \/ ConfirmSell
  \/ ReconfirmSell \/ UpdateSellComplete \/ SaveTradeToNotion \/ CatchError
  \/ ProcessResult \/ BreakerSleep \/ Pause
  \/ FillLimit \/ DropLimit \/ FillMarket \/ FillSell

Spec == Init /\ [][Next]_vars

\* the steps of main and tradingCycle, without the signal and the exchange
Program ==
  \/ StartMain \/ OuterLoop \/ ScanPairs \/ EmptySleep \/ GetPairDetails
  \/ SelectBestPair \/ StartEpisode \/ CycleError \/ FatalError \/ Finally
  \/ InnerLoop \/ FetchMarket \/ AnalyzeTradePrices
  \/ RethrowParseError \/ CreateTrade \/ BuyLimit
  \/ UpdateBuyOrderSent \/ PollBuyOrder \/ PollTimeout \/ CancelOrder \/ BuyMarket
  \/ SettleMarketBuy \/ UpdateBuyComplete \/ MonitorPrice \/ SellMarket \/ ConfirmSell
  \/ ReconfirmSell \/ UpdateSellComplete \/ SaveTradeToNotion \/ CatchError
  \/ ProcessResult \/ BreakerSleep \/ Pause

\* the program under fair scheduling: every await returns (or throws) and
\* the event loop runs the continuation
FairSpec == Spec /\ WF_vars(Program)

(***************************************************************************)
(* scanPairs and getPairDetails as functions of what the exchange returns  *)
(***************************************************************************)

\* market_event of a listed market: the warning flag and the caution that is set
CautionFlags == {"PRICE_FLUCTUATIONS", "TRADING_VOLUME_SOARING", "DEPOSIT_AMOUNT_SOARING"}
MarketEvents == [warning : BOOLEAN, caution : {"none"} \cup CautionFlags]
\* a ticker of the reply to upbit.getTicker: has is FALSE when the reply
\* holds none for the market; rate is signed_change_rate * 100
ChangeRates == {4, -5}
TickerValues == {[has |-> FALSE, rate |-> 0]} \cup [has : {TRUE}, rate : ChangeRates]
\* the outcome of the three fetches of getPairDetails for one candidate
FetchOutcomes == [candles : BOOLEAN, orderbook : BOOLEAN, ticker : BOOLEAN]

Abs(x) == IF x < 0 THEN -x ELSE x

\* markets.slice(0, n)
Slice(markets, n) == SubSeq(markets, 1, Min(n, Len(markets)))

\* filterMarkets keeping the markets with a warning only
filterMarketsWarningOnly(markets) ==
  LET Flagged(m) == m.warning = TRUE
  IN  SelectSeq(markets, Flagged)

\* upbit.filterMarkets
filterMarkets(markets) ==
  LET Flagged(m) ==
        \/ m.warning = TRUE
        \/ m.caution = "PRICE_FLUCTUATIONS"
        \/ m.caution = "TRADING_VOLUME_SOARING"
        \/ m.caution = "DEPOSIT_AMOUNT_SOARING"
  IN  SelectSeq(markets, Flagged)

\* scanPairs: the flagged markets, or else the volatile ones of the first
\* TOP_N; tickerFetched tells whether upbit.getTicker was called
scanPairs(markets, tickers) ==
  LET filtered == filterMarkets(markets)
      Volatile(m) == tickers[m.market].has /\ Abs(tickers[m.market].rate) >= MIN_VOLATILITY
  IN  IF Len(filtered) = 0
        THEN [pairs |-> SelectSeq(Slice(markets, TOP_N), Volatile), tickerFetched |-> TRUE]
        ELSE [pairs |-> filtered, tickerFetched |-> FALSE]

\* getPairDetails ending its loop at the first pair whose fetch failed
RECURSIVE getPairDetailsStopsAtFailure(_, _, _)
getPairDetailsStopsAtFailure(markets, i, acc) ==
  IF i > Len(Slice(markets, DETAIL_N)) THEN acc
  ELSE LET m == markets[i]
           fetched == Append(acc.fetched, m.market)
       IN  IF m.candles /\ m.orderbook /\ m.ticker
             THEN getPairDetailsStopsAtFailure(markets, i + 1,
                    [details |-> Append(acc.details, m.market), fetched |-> fetched])
             ELSE [details |-> acc.details, fetched |-> fetched]

\* the loop of getPairDetails from the i-th candidate on: the three fetches
\* of a pair are started together, a failure of any of them drops the pair
RECURSIVE getPairDetails(_, _, _)
getPairDetails(markets, i, acc) ==
  IF i > Len(Slice(markets, DETAIL_N)) THEN acc
  ELSE LET m == markets[i]
           fetched == Append(acc.fetched, m.market)
       IN  IF m.candles /\ m.orderbook /\ m.ticker
             THEN getPairDetails(markets, i + 1,
                    [details |-> Append(acc.details, m.market), fetched |-> fetched])
             ELSE getPairDetails(markets, i + 1,
                    [details |-> acc.details, fetched |-> fetched])

(***************************************************************************)
(* The indicator functions of llm-analyzer.js.  A number is an exact        *)
(* fraction n/d in lowest terms with d > 0; Math.sqrt(v) is kept as the     *)
(* root of the fraction v, and a value that holds a root is                 *)
(* rat + coef * sqrt(rad).                                                  *)
(***************************************************************************)

\* the closing prices of a series
ClosePrices == 0..MaxPrice

\* null, as an indicator function returns it
JsNull == [kind |-> "null"]

RECURSIVE Gcd(_, _)
Gcd(a, b) == IF b = 0 THEN a ELSE Gcd(b, a % b)

\* the number n/d, d # 0
Frac(n, d) ==
  LET g == Gcd(Abs(n), Abs(d))
      sgn == IF d < 0 THEN -1 ELSE 1
  IN  [kind |-> "number", n |-> (sgn * n) \div g, d |-> (sgn * d) \div g]

Num(k) == Frac(k, 1)
FAdd(x, y) == Frac(x.n * y.d + y.n * x.d, x.d * y.d)
FSub(x, y) == Frac(x.n * y.d - y.n * x.d, x.d * y.d)
FMul(x, y) == Frac(x.n * y.n, x.d * y.d)
\* x / y for y # 0
FDiv(x, y) == Frac(x.n * y.d, x.d * y.n)
FLeq(x, y) == x.n * y.d <= y.n * x.d
FSign(x) == IF x.n > 0 THEN 1 ELSE IF x.n < 0 THEN -1 ELSE 0

\* !x of a value that is null or a number
JsNot(x) == x.kind = "null" \/ x.n = 0

\* Math.sqrt(v), v >= 0
Sqrt(v) == [rat |-> Num(0), coef |-> Num(1), rad |-> v]
\* s * k, f + s, f - s, s / f, s - t for values s, t with the same root
SurdTimes(s, k) == [rat |-> FMul(s.rat, k), coef |-> FMul(s.coef, k), rad |-> s.rad]
SurdPlus(f, s) == [rat |-> FAdd(f, s.rat), coef |-> s.coef, rad |-> s.rad]
SurdMinus(f, s) == [rat |-> FSub(f, s.rat), coef |-> FSub(Num(0), s.coef), rad |-> s.rad]
SurdOver(s, f) == [rat |-> FDiv(s.rat, f), coef |-> FDiv(s.coef, f), rad |-> s.rad]
SurdDiff(s, t) == [rat |-> FSub(s.rat, t.rat), coef |-> FSub(s.coef, t.coef), rad |-> s.rad]
\* the sign of rat + coef * sqrt(rad)
SurdSign(s) ==
  LET a == FSign(s.rat)
      b == IF s.rad.n = 0 THEN 0 ELSE FSign(s.coef)
      a2 == FMul(s.rat, s.rat)
      b2 == FMul(FMul(s.coef, s.coef), s.rad)
  IN  CASE a >= 0 /\ b >= 0 -> (IF a = 0 /\ b = 0 THEN 0 ELSE 1)
        [] a <= 0 /\ b <= 0 -> -1
        [] a > 0 /\ b < 0 -> FSign(FSub(a2, b2))
        [] OTHER -> FSign(FSub(b2, a2))

\* prices.slice(0, period).reduce((a, b) => a + b, 0), and the same over any
\* list of numbers
RECURSIVE SumOf(_)
SumOf(q) == IF q = <<>> THEN Num(0) ELSE FAdd(Head(q), SumOf(Tail(q)))

\* a list of prices as a list of numbers
AsNumbers(prices) == [k \in DOMAIN prices |-> Num(prices[k])]

\* calculateRSI with the loop stopping one difference short of the window
RECURSIVE RsiLoop(_, _, _, _)
RsiLoop(prices, period, i, acc) ==
  IF i > period THEN acc
  ELSE LET diff == prices[i] - prices[i + 1]
       IN  RsiLoop(prices, period, i + 1,
                   IF diff > 0 THEN [acc EXCEPT !.gains = @ + diff]
                   ELSE [acc EXCEPT !.losses = @ - diff])

calculateRSIShortWindow(prices, period) ==
  IF Len(prices) < period + 1 THEN JsNull
  ELSE LET acc == RsiLoop(prices, period - 1, 1, [gains |-> 0, losses |-> 0])
           avgGain == Frac(acc.gains, period)
           avgLoss == Frac(acc.losses, period)
       IN  IF avgLoss.n = 0 THEN Num(100)
           ELSE LET rs == FDiv(avgGain, avgLoss)
                IN  FSub(Num(100), FDiv(Num(100), FAdd(Num(1), rs)))

\* calculateRSI: the newest price is first; prices[i - 1] - prices[i] of the
\* source is prices[i] - prices[i + 1] here, sequences starting at 1
calculateRSI(prices, period) ==
  IF Len(prices) < period + 1 THEN JsNull
  ELSE LET acc == RsiLoop(prices, period, 1, [gains |-> 0, losses |-> 0])
           avgGain == Frac(acc.gains, period)
           avgLoss == Frac(acc.losses, period)
       IN  IF avgLoss.n = 0 THEN Num(100)
           ELSE LET rs == FDiv(avgGain, avgLoss)
                IN  FSub(Num(100), FDiv(Num(100), FAdd(Num(1), rs)))

calculateSMA(prices, period) ==
  IF Len(prices) < period THEN JsNull
  ELSE FDiv(SumOf(AsNumbers(Slice(prices, period))), Num(period))

\* calculateBollinger with the lower band above the middle
calculateBollingerLowerAbove(prices, period) ==
  LET sma == calculateSMA(prices, period)
  IN  IF JsNot(sma) THEN JsNull
      ELSE LET window == Slice(prices, period)
               squaredDiffs == [k \in DOMAIN window |->
                                  FMul(FSub(Num(window[k]), sma), FSub(Num(window[k]), sma))]
               stdDev == Sqrt(FDiv(SumOf(squaredDiffs), Num(period)))
           IN  [kind |-> "bands",
                upper |-> SurdPlus(sma, SurdTimes(stdDev, Num(2))),
                middle |-> sma,
                lower |-> SurdPlus(sma, SurdTimes(stdDev, Num(2))),
                bandwidth |-> SurdTimes(SurdOver(SurdDiff(SurdPlus(sma, SurdTimes(stdDev, Num(2))),
                                                           SurdMinus(sma, SurdTimes(stdDev, Num(2)))),
                                                  sma), Num(100))]

calculateBollinger(prices, period) ==
  LET sma == calculateSMA(prices, period)
  IN  IF JsNot(sma) THEN JsNull
      ELSE LET window == Slice(prices, period)
               squaredDiffs == [k \in DOMAIN window |->
                                  FMul(FSub(Num(window[k]), sma), FSub(Num(window[k]), sma))]
               stdDev == Sqrt(FDiv(SumOf(squaredDiffs), Num(period)))
           IN  [kind |-> "bands",
                upper |-> SurdPlus(sma, SurdTimes(stdDev, Num(2))),
                middle |-> sma,
                lower |-> SurdMinus(sma, SurdTimes(stdDev, Num(2))),
                bandwidth |-> SurdTimes(SurdOver(SurdDiff(SurdPlus(sma, SurdTimes(stdDev, Num(2))),
                                                           SurdMinus(sma, SurdTimes(stdDev, Num(2)))),
                                                  sma), Num(100))]

\* for (let i = prices.length - period - 1; i >= 0; i--) of calculateEMA;
\* index i of the source is place i + 1 here
RECURSIVE EmaLoop(_, _, _, _)
EmaLoop(prices, multiplier, i, ema) ==
  IF i < 0 THEN ema
  ELSE EmaLoop(prices, multiplier, i - 1,
               FAdd(FMul(FSub(Num(prices[i + 1]), ema), multiplier), ema))

\* calculateEMA: the average of prices.slice(-period), then the loop
calculateEMA(prices, period) ==
  IF Len(prices) < period THEN JsNull
  ELSE LET multiplier == Frac(2, period + 1)
           oldest == SubSeq(prices, Len(prices) - period + 1, Len(prices))
           seed == FDiv(SumOf(AsNumbers(oldest)), Num(period))
       IN  EmaLoop(prices, multiplier, Len(prices) - period - 1, seed)

\* calculateMACD; fast and slow are the windows 12 and 26 of the source
calculateMACD(prices, fast, slow) ==
  LET ema12 == calculateEMA(prices, fast)
      ema26 == calculateEMA(prices, slow)
  IN  IF JsNot(ema12) \/ JsNot(ema26) THEN JsNull
      ELSE [kind |-> "macd", macdLine |-> FSub(ema12, ema26), ema12 |-> ema12, ema26 |-> ema26]

\* the arguments of calculateProfitRate: a positive buy price, a sell price
\* (0 when the sell order reported none) and a fee rate
ProfitInputs ==
  [buyPrice : Prices \cup {100}, sellPrice : (0..MaxPrice) \cup {105},
   feeRate : {0, DEFAULT_FEE_RATE, 25}]

\* the listing upbit.getMarkets returns and the candidates handed to
\* getPairDetails are built one market at a time; a market is named by its
\* place in the listing
InitFn ==
  /\ Fresh
  /\ NotionFresh
  /\ fnOut = Null
  /\ \/ pc = "fn_scanPairs" /\ fnIn = [markets |-> <<>>, tickers |-> <<>>]
     \/ pc = "fn_getPairDetails" /\ fnIn = <<>>
     \/ pc = "fn_calculateProfitRate" /\ fnIn \in ProfitInputs
     \/ pc = "fn_indicators" /\ fnIn = <<>>

\* one more market in the listing, with its ticker on the exchange
ListMarket ==
  /\ pc = "fn_scanPairs"
  /\ Len(fnIn.markets) < MaxMarkets
  /\ \E e \in MarketEvents, t \in TickerValues :
       fnIn' = [markets |-> Append(fnIn.markets,
                              [market |-> Len(fnIn.markets) + 1, warning |-> e.warning,
                               caution |-> e.caution]),
                tickers |-> Append(fnIn.tickers, t)]
  /\ UNCHANGED <<pc, mainVars, tradeVars, trades, exchVars, histVars, selVars, scanVars, signalled, fnOut, notionVars>>

ApplyScanPairs ==
  /\ pc = "fn_scanPairs"
  /\ fnOut' = scanPairs(fnIn.markets, fnIn.tickers)
  /\ pc' = "fn_scanPairs_done"
  /\ UNCHANGED <<mainVars, tradeVars, trades, exchVars, histVars, selVars, scanVars, signalled, fnIn, notionVars>>

\* one more candidate, with the outcome its fetches will have
AddCandidate ==
  /\ pc = "fn_getPairDetails"
  /\ Len(fnIn) < MaxMarkets
  /\ \E f \in FetchOutcomes :
       fnIn' = Append(fnIn, [market |-> Len(fnIn) + 1, candles |-> f.candles,
                             orderbook |-> f.orderbook, ticker |-> f.ticker])
  /\ UNCHANGED <<pc, mainVars, tradeVars, trades, exchVars, histVars, selVars, scanVars, signalled, fnOut, notionVars>>

ApplyGetPairDetails ==
  /\ pc = "fn_getPairDetails"
  /\ fnOut' = getPairDetails(fnIn, 1, [details |-> <<>>, fetched |-> <<>>])
  /\ pc' = "fn_getPairDetails_done"
  /\ UNCHANGED <<mainVars, tradeVars, trades, exchVars, histVars, selVars, scanVars, signalled, fnIn, notionVars>>

ApplyCalculateProfitRate ==
  /\ pc = "fn_calculateProfitRate"
  /\ fnOut' = calculateProfitRate(fnIn.buyPrice, fnIn.sellPrice, fnIn.feeRate)
  /\ pc' = "fn_calculateProfitRate_done"
  /\ UNCHANGED <<mainVars, tradeVars, trades, exchVars, histVars, selVars, scanVars, signalled, fnIn, notionVars>>

\* one more, older, closing price in the series
AddClose ==
  /\ pc = "fn_indicators"
  /\ Len(fnIn) < MaxSeries
  /\ \E c \in ClosePrices : fnIn' = Append(fnIn, c)
  /\ UNCHANGED <<pc, mainVars, tradeVars, trades, exchVars, histVars, selVars, scanVars, signalled, fnOut, notionVars>>

ApplyCalculateRSI ==
  /\ pc = "fn_indicators"
  /\ fnOut' = calculateRSI(fnIn, PERIOD)
  /\ pc' = "fn_calculateRSI_done"
  /\ UNCHANGED <<mainVars, tradeVars, trades, exchVars, histVars, selVars, scanVars, signalled, fnIn, notionVars>>

ApplyCalculateSMA ==
  /\ pc = "fn_indicators"
  /\ fnOut' = calculateSMA(fnIn, PERIOD)
  /\ pc' = "fn_calculateSMA_done"
  /\ UNCHANGED <<mainVars, tradeVars, trades, exchVars, histVars, selVars, scanVars, signalled, fnIn, notionVars>>

ApplyCalculateBollinger ==
  /\ pc = "fn_indicators"
  /\ fnOut' = calculateBollinger(fnIn, PERIOD)
  /\ pc' = "fn_calculateBollinger_done"
  /\ UNCHANGED <<mainVars, tradeVars, trades, exchVars, histVars, selVars, scanVars, signalled, fnIn, notionVars>>

ApplyCalculateEMA ==
  /\ pc = "fn_indicators"
  /\ fnOut' = calculateEMA(fnIn, PERIOD)
  /\ pc' = "fn_calculateEMA_done"
  /\ UNCHANGED <<mainVars, tradeVars, trades, exchVars, histVars, selVars, scanVars, signalled, fnIn, notionVars>>

ApplyCalculateMACD ==
  /\ pc = "fn_indicators"
  /\ fnOut' = calculateMACD(fnIn, MACD_FAST, MACD_SLOW)
  /\ pc' = "fn_calculateMACD_done"
  /\ UNCHANGED <<mainVars, tradeVars, trades, exchVars, histVars, selVars, scanVars, signalled, fnIn, notionVars>>

NextFn ==
  \/ ListMarket \/ ApplyScanPairs \/ AddCandidate \/ ApplyGetPairDetails
  \/ ApplyCalculateProfitRate
  \/ AddClose \/ ApplyCalculateRSI \/ ApplyCalculateSMA \/ ApplyCalculateBollinger
  \/ ApplyCalculateEMA \/ ApplyCalculateMACD

SpecFn == InitFn /\ [][NextFn]_vars

(***************************************************************************)
(* The mirror module (part_001): sequences of saveTradeToNotion calls of   *)
(* one process.  The calls are awaited one after the other.  A request     *)
(* that fails (res.ok false) throws and has changed nothing.               *)
(***************************************************************************)

\* getOrCreateWeeklyDb with the cache never written
getOrCreateWeeklyDbNoCache(listOk, found, createOk) ==
  IF weeklyDbCache[week] # NoId
    THEN [threw |-> FALSE, id |-> weeklyDbCache[week], requests |-> <<>>,
          cache |-> weeklyDbCache, made |-> 0]
  ELSE IF ~listOk
    THEN [threw |-> TRUE, id |-> NoId, requests |-> <<"GET children">>,
          cache |-> weeklyDbCache, made |-> 0]
  ELSE IF found
    THEN [threw |-> FALSE, id |-> week, requests |-> <<"GET children">>,
          cache |-> weeklyDbCache, made |-> 0]
  ELSE IF ~createOk
    THEN [threw |-> TRUE, id |-> NoId, requests |-> <<"GET children", "POST databases">>,
          cache |-> weeklyDbCache, made |-> 0]
  ELSE [threw |-> FALSE, id |-> week, requests |-> <<"GET children", "POST databases">>,
        cache |-> weeklyDbCache, made |-> 1]

\* getOrCreateWeeklyDb: the cached id; else the listing of the parent page
\* and the id of the block with this week's title, cached; else the creation
\* request and the new id, cached.  listOk and createOk tell whether the
\* requests succeed, found whether the listing holds a container of that
\* title.  The id of a container is its week label.
getOrCreateWeeklyDb(listOk, found, createOk) ==
  IF weeklyDbCache[week] # NoId
    THEN [threw |-> FALSE, id |-> weeklyDbCache[week], requests |-> <<>>,
          cache |-> weeklyDbCache, made |-> 0]
  ELSE IF ~listOk
    THEN [threw |-> TRUE, id |-> NoId, requests |-> <<"GET children">>,
          cache |-> weeklyDbCache, made |-> 0]
  ELSE IF found
    THEN [threw |-> FALSE, id |-> week, requests |-> <<"GET children">>,
          cache |-> [weeklyDbCache EXCEPT ![week] = week], made |-> 0]
  ELSE IF ~createOk
    THEN [threw |-> TRUE, id |-> NoId, requests |-> <<"GET children", "POST databases">>,
          cache |-> weeklyDbCache, made |-> 0]
  ELSE [threw |-> FALSE, id |-> week, requests |-> <<"GET children", "POST databases">>,
        cache |-> [weeklyDbCache EXCEPT ![week] = week], made |-> 1]

\* f[1] + ... + f[n]
RECURSIVE SumTo(_, _)
SumTo(f, n) == IF n = 0 THEN 0 ELSE SumTo(f, n - 1) + f[n]

InitNotion ==
  /\ pc = "notion"
  /\ Fresh
  /\ fnIn = Null /\ fnOut = Null
  /\ weeklyDbCache = [l \in Weeks |-> NoId]
  /\ week = 1
  /\ databases \in [Weeks -> {0, 1}]
  /\ pages = [l \in Weeks |-> 0]
  /\ notionLog = NoLog

\* one saveTradeToNotion call: getOrCreateWeeklyDb, then POST /pages with the
\* id it returned.  The listing returns the first page of the children only,
\* so a container that exists may be missing from it.
saveTradeToNotion ==
  /\ pc = "notion"
  /\ SumTo(pages, MaxWeeks) < MaxSaves
  /\ \E listOk \in BOOLEAN, createOk \in BOOLEAN, pageOk \in BOOLEAN,
        found \in (IF databases[week] > 0 THEN BOOLEAN ELSE {FALSE}) :
       LET db == getOrCreateWeeklyDb(listOk, found, createOk)
       IN  /\ weeklyDbCache' = db.cache
           /\ databases' = [databases EXCEPT ![week] = @ + db.made]
           /\ IF db.threw
                THEN /\ pages' = pages
                     /\ notionLog' = [requests |-> db.requests, ended |-> "threw",
                                      created |-> notionLog.created]
                ELSE /\ pages' = IF pageOk THEN [pages EXCEPT ![db.id] = @ + 1] ELSE pages
                     /\ notionLog' =
                          [requests |-> Append(db.requests, "POST pages"),
                           ended |-> IF pageOk THEN "returned" ELSE "threw",
                           created |-> [notionLog.created EXCEPT ![week] = @ + db.made]]
  /\ UNCHANGED <<pc, week, mainVars, tradeVars, trades, exchVars, histVars, selVars,
                 scanVars, signalled, fnIn, fnOut>>

\* the next week begins
NextWeek ==
  /\ pc = "notion"
  /\ week < MaxWeeks
  /\ week' = week + 1
  /\ notionLog' = [notionLog EXCEPT !.requests = <<>>, !.ended = "none"]
  /\ UNCHANGED <<pc, weeklyDbCache, databases, pages, mainVars, tradeVars, trades, exchVars,
                 histVars, selVars, scanVars, signalled, fnIn, fnOut>>

NextNotion == saveTradeToNotion \/ NextWeek

NotionSpec == InitNotion /\ [][NextNotion]_vars

TypeOK ==
  /\ pc \in {"start", "outer", "scan", "emptySleep", "details", "select", "episode",
             "inner", "main_result", "breakerSleep", "pause", "cycleError", "fatal", "finally",
             "done"} \cup TradePcs
  /\ isRunning \in BOOLEAN
  /\ consecutiveLosses \in 0..LOSS_LIMIT
  /\ cycleElapsed \in 0..MAX_CYCLE_TIME
  /\ Len(trades) <= MaxTrades
  /\ pairsData \subseteq Candidates
  /\ pairDetail \in Candidates \cup {Undefined}

(***************************************************************************)
(* Properties                                                              *)
(***************************************************************************)

\* ids of the rows of the trades table that are not CLOSED
OpenRecords == {i \in DOMAIN trades : trades[i] # "CLOSED"}

\* C1: at most one TradeRecord is in a non-CLOSED status at any time, also
\* after an invocation of tradingCycle that ended with result 'error'.
C1_AtMostOneOpenRecord == Cardinality(OpenRecords) <= 1

\* C2: no buy order (limit or market) of a tradingCycle invocation is on the
\* exchange while volume bought by an earlier invocation is still unsold.
C2_NoBuyWhilePositionOpen ==
  (limitOrd.state # "none" \/ mktOrd.state # "none") => ~carried

\* C3: the record is marked BOUGHT and the monitoring loop is entered only
\* after a status lookup of the limit order returned 'done', or after the
\* lookup of the fallback market buy showed it filled.
C3_BoughtOnlyAfterFill ==
  [][(pc = "tc_bought" /\ pc' = "tc_monitor") => orderInfo.state = "done"]_vars

\* the calls of the timeout fallback, in the order of the source
FallbackCalls == <<"cancelOrder", "buyMarket(SEED_MONEY)", "sleep(2000)", "getOrder(market)">>

\* the last n entries of a sequence
Tail4(q) == IF Len(q) < 4 THEN <<>> ELSE SubSeq(q, Len(q) - 3, Len(q))

\* C4: when the limit buy is unfilled at the end of the buy-fill loop,
\* tradingCycle calls cancelOrder, then buyMarket with the full SEED_MONEY,
\* then sleeps 2 s and reads the market order, in that order and all before
\* db.updateBuyComplete; buyMarket is never called before cancelOrder returned.
C4_TimeoutFallbackOrder ==
  /\ \A i \in DOMAIN calls :
       /\ calls[i] = "buyMarket(SEED_MONEY)" => (i > 1 /\ calls[i - 1] = "cancelOrder")
       /\ calls[i] = "getOrder(market)" =>
            (i > 2 /\ calls[i - 1] = "sleep(2000)" /\ calls[i - 2] = "buyMarket(SEED_MONEY)")
       /\ calls[i] = "updateBuyComplete" =>
            (i > 1 /\ calls[i - 1] \in {"getOrder(limit)", "getOrder(market)"})
  /\ mktOrd.state # "none" => mktOrd.volume = FULL_VOLUME
  /\ pc = "tc_cancel" => ~buyCompleted
  /\ (pc = "tc_bought" /\ ~buyCompleted) => Tail4(calls) = FallbackCalls
  /\ pc \in {"tc_cancel", "tc_buyMarket", "tc_settle", "tc_bought"} =>
       \A i \in DOMAIN calls : calls[i] # "updateBuyComplete"

\* C4 witness: ORDER_TIMEOUT elapsed without a fill and the fallback has run
C4_Witness ==
  /\ pc = "tc_bought"
  /\ ~buyCompleted
  /\ buyElapsed = ORDER_TIMEOUT
  /\ Tail4(calls) = FallbackCalls
  /\ orderInfo.state = "done"

C6_ClosedOnlyAfterSellDone ==
  [][(pc = "tc_close" /\ pc' = "tc_notion") => sellOrderInfo.state = "done"]_vars

\* C7: tradingCycle is left only by returning to main, with a result in
\* {TAKE_PROFIT, STOP_LOSS, error}, and result error carries profitRate 0.
C7_NeverPropagates ==
  [][(pc \in TradePcs /\ pc' \notin TradePcs) =>
       /\ pc' = "main_result"
       /\ tradeResult'.result \in {"TAKE_PROFIT", "STOP_LOSS", "error"}
       /\ tradeResult'.result = "error" => tradeResult'.profitRate = 0]_vars

\* C7 witness: the mirror call failed after the record was closed, and the
\* trade still returned, with result error
C7_Witness ==
  /\ pc = "main_result"
  /\ tradeResult = [result |-> "error", profitRate |-> 0]
  /\ trades # <<>>
  /\ trades[Len(trades)] = "CLOSED"

\* the number of STOP_LOSS outcomes since the last TAKE_PROFIT outcome
RECURSIVE LossesSince(_)
LossesSince(q) ==
  IF q = <<>> THEN 0
  ELSE IF q[Len(q)] = "TAKE_PROFIT" THEN 0
  ELSE LossesSince(SubSeq(q, 1, Len(q) - 1)) + (IF q[Len(q)] = "STOP_LOSS" THEN 1 ELSE 0)

\* C8: after each outcome of an episode consecutiveLosses is the number of
\* STOP_LOSS outcomes since the last TAKE_PROFIT (or the episode start), and
\* main suspends exactly when that number reaches LOSS_LIMIT (2), never at a smaller one.
C8_BreakerCount ==
  /\ [](consecutiveLosses = LossesSince(outcomes))
  /\ [](pc = "breakerSleep" => LossesSince(outcomes) = LOSS_LIMIT)
  /\ [][(pc = "main_result" /\ pc' # pc) =>
          ((pc' = "breakerSleep") = (LossesSince(outcomes') = LOSS_LIMIT))]_vars

\* C8 witness: a take-profit followed by two stop-losses suspends the episode
C8_Witness ==
  /\ pc = "breakerSleep"
  /\ outcomes = <<"TAKE_PROFIT", "STOP_LOSS", "STOP_LOSS">>
  /\ consecutiveLosses = LOSS_LIMIT

\* the last two outcomes of the episode are stop-losses
TwoLosses ==
  /\ Len(outcomes) >= 2
  /\ outcomes[Len(outcomes)] = "STOP_LOSS"
  /\ outcomes[Len(outcomes) - 1] = "STOP_LOSS"

\* C9: after two consecutive stop-losses main sleeps MAX_CYCLE_TIME and then
\* goes to the next scan: until the next pair is selected no tradingCycle
\* runs and main does nothing but that sleep and the scan.
C9_SuspendThenRescan ==
  TwoLosses =>
    /\ pc \notin TradePcs \cup {"inner", "pause", "main_result"}
    /\ IF pc = "breakerSleep" THEN trail = <<>>
       ELSE trail \in {<<"sleep(MAX_CYCLE_TIME)">>, <<"sleep(MAX_CYCLE_TIME)", "scanPairs">>}
    /\ pc \in {"details", "select", "episode", "emptySleep", "cycleError"} =>
         trail = <<"sleep(MAX_CYCLE_TIME)", "scanPairs">>

\* C9 witness: the scan that follows the breaker sleep
C9_Witness ==
  /\ TwoLosses
  /\ pc = "details"
  /\ trail = <<"sleep(MAX_CYCLE_TIME)", "scanPairs">>

\* the last outcome of the episode is an error
LastIsError == outcomes # <<>> /\ outcomes[Len(outcomes)] = "error"

\* C10: on result error main leaves consecutiveLosses unchanged, runs no
\* further trade in the episode and goes to the next scan without the
\* MAX_CYCLE_TIME sleep of the breaker.
C10_ErrorEndsEpisode ==
  /\ [][(pc = "main_result" /\ pc' # pc /\ tradeResult.result = "error") =>
          (consecutiveLosses' = consecutiveLosses /\ pc' = "outer")]_vars
  /\ [](LastIsError =>
          /\ pc \notin TradePcs \cup {"inner", "pause", "main_result", "breakerSleep"}
          /\ trail \in {<<>>, <<"scanPairs">>})

\* C10 witness: an error after one stop-loss; the counter is still 1 and main
\* is in the next scan
C10_Witness ==
  /\ LastIsError
  /\ consecutiveLosses = 1
  /\ pc = "details"
  /\ trail = <<"scanPairs">>

\* C11: when the selection reply carries noEntry: true, main sleeps
\* MAX_CYCLE_TIME before it goes back to the outer loop for the next scan.
C11_NoEntrySleepsFullCycle ==
  (pc = "outer" /\ verdict.noEntry = TRUE) => lastSleep = "sleep(MAX_CYCLE_TIME)"

\* C12: a trade is started only on a selection reply that holds a confidence
\* of at least 0.5; a reply without the confidence field starts none.
C12_NoTradeBelowConfidence ==
  [][(pc = "inner" /\ pc' = "tc_fetch" /\ verdict.kind = "object") =>
       (verdict.confidence # Undefined /\ verdict.confidence >= MIN_CONFIDENCE)]_vars

\* C13: after an empty scan main sleeps the fixed 5 minutes and goes back to
\* the outer loop, whose next operation is a scan (or the end of main after a
\* shutdown signal); neither the detail fetch nor the oracle is called and
\* main's catch block is not entered.
C13_EmptyScanSleepsAndRescans ==
  /\ [][pc = "emptySleep" =>
          /\ pc' \in {"emptySleep", "outer"}
          /\ pc' = "outer" => lastSleep' = "sleep(300000)"]_vars
  /\ [][(pc = "outer" /\ lastSleep = "sleep(300000)") =>
          pc' \in {"outer", "scan", "finally"}]_vars

\* C13 witness: the scan that follows the sleep after an empty scan
C13_Witness ==
  /\ pc = "outer"
  /\ lastSleep = "sleep(300000)"
  /\ isRunning

\* C14: a failure of saveTradeToNotion does not abort the trade: once the
\* store holds the CLOSED record, tradingCycle returns the exit outcome.
C14_MirrorFailureSwallowed ==
  [][(pc = "tc_notion" /\ pc' # pc) =>
       (pc' = "main_result" /\ tradeResult'.result \in {"TAKE_PROFIT", "STOP_LOSS"})]_vars

C17_MalformedReplyIsTradeError ==
  /\ [][(pc = "select" /\ pc' # pc /\ verdict'.kind = "none") => pc' = "tc_catch"]_vars
  /\ [][(pc = "tc_parseError" /\ pc' # pc) => pc' = "tc_catch"]_vars

\* C17 amended: a malformed reply to the price prompt is caught by the catch
\* block of tradingCycle and becomes an 'error' outcome after the 5 s sleep,
\* with no record created and no order placed in that attempt; a malformed
\* reply to the selection prompt is raised outside any trade: main's catch
\* sleeps 60 s and the outer loop goes on, with no trade outcome.
C17_MalformedReplyHandled ==
  /\ [][(pc = "select" /\ pc' # pc /\ verdict'.kind = "none") =>
          (pc' = "cycleError" /\ UNCHANGED <<trades, outcomes, tradeResult>>)]_vars
  /\ [][(pc = "cycleError" /\ pc' # pc) =>
          (pc' = "outer" /\ lastSleep' = "sleep(60000)"
             /\ UNCHANGED <<trades, outcomes, tradeResult>>)]_vars
  /\ [](pc = "tc_parseError" =>
          /\ \A i \in DOMAIN calls : calls[i] \notin {"createTrade", "buyLimit", "buyMarket(SEED_MONEY)"}
          /\ limitOrd = NoOrder /\ mktOrd = NoOrder /\ sellOrd = NoOrder)
  /\ [][(pc = "tc_parseError" /\ pc' # pc) =>
          (pc' = "tc_catch" /\ UNCHANGED <<trades, limitOrd, mktOrd, sellOrd>>)]_vars
  /\ [][(pc = "tc_catch" /\ pc' # pc) =>
          /\ pc' = "main_result"
          /\ tradeResult' = [result |-> "error", profitRate |-> 0]
          /\ trades' = trades]_vars

\* C17 witness: the selection reply held no object and main is in its catch block
C17_Witness ==
  /\ pc = "cycleError"
  /\ verdict = NoObject
  /\ trades # <<>>

\* C18: no entry is returned without selectedPair and a numeric confidence,
\* and no plan without numeric buyPrice, takeProfit and stopLoss: no episode
\* starts on such an entry and tradingCycle never holds such a plan.
C18_NoMissingField ==
  /\ (pc \in {"episode", "inner"} /\ verdict.kind = "object") =>
       (verdict.selectedPair /\ verdict.confidence # Undefined)
  /\ plan # NoPlan =>
       (plan.buyPrice # Undefined /\ plan.takeProfit # Undefined /\ plan.stopLoss # Undefined)

\* the places of a listing, in rising order, are the markets of q
InListingOrder(q, places) ==
  /\ Len(q) = Cardinality(places)
  /\ \A k \in DOMAIN q : q[k] \in places
  /\ \A k \in DOMAIN q : k > 1 => q[k - 1] < q[k]

\* C19: scanPairs returns, in listing order, exactly the flagged markets when
\* there is one, and then fetches no ticker; else exactly those of the first
\* TOP_N markets whose ticker exists and has |signed_change_rate * 100| >=
\* MIN_VOLATILITY.
C19_ScanPairsResult ==
  pc = "fn_scanPairs_done" =>
    LET ms == fnIn.markets
        flagged == {i \in DOMAIN ms : ms[i].warning \/ ms[i].caution \in CautionFlags}
        volatile == {i \in DOMAIN ms : /\ i <= TOP_N
                                       /\ fnIn.tickers[i].has
                                       /\ \/ fnIn.tickers[i].rate >= MIN_VOLATILITY
                                          \/ fnIn.tickers[i].rate <= -MIN_VOLATILITY}
        names == [k \in DOMAIN fnOut.pairs |-> fnOut.pairs[k].market]
    IN  /\ \A k \in DOMAIN fnOut.pairs : fnOut.pairs[k] = ms[names[k]]
        /\ InListingOrder(names, IF flagged # {} THEN flagged ELSE volatile)
        /\ fnOut.tickerFetched = (flagged = {})

\* C19 witness: only a deposit-soaring caution, on a market beyond the first
\* TOP_N, and scanPairs returns that market without a ticker fetch
C19_Witness ==
  /\ pc = "fn_scanPairs_done"
  /\ Len(fnIn.markets) = MaxMarkets
  /\ \A i \in DOMAIN fnIn.markets :
       /\ ~fnIn.markets[i].warning
       /\ fnIn.markets[i].caution = (IF i = MaxMarkets THEN "DEPOSIT_AMOUNT_SOARING" ELSE "none")
  /\ Len(fnOut.pairs) = 1
  /\ ~fnOut.tickerFetched

\* C20: getPairDetails returns, in input order, exactly the pairs among the
\* first DETAIL_N candidates whose candle, order-book and ticker fetches all
\* succeeded; every one of the first DETAIL_N candidates is fetched, also
\* after a failure.
C20_PairDetailsResult ==
  pc = "fn_getPairDetails_done" =>
    LET first == {i \in DOMAIN fnIn : i <= DETAIL_N}
        good == {i \in first : fnIn[i].candles /\ fnIn[i].orderbook /\ fnIn[i].ticker}
    IN  /\ InListingOrder(fnOut.details, good)
        /\ InListingOrder(fnOut.fetched, first)

\* C20 witness: the first candidate's ticker fetch failed and the second
\* candidate is returned
C20_Witness ==
  /\ pc = "fn_getPairDetails_done"
  /\ Len(fnIn) >= 2
  /\ ~fnIn[1].ticker /\ fnIn[1].candles /\ fnIn[1].orderbook
  /\ fnOut.details = <<2>>

\* C21: once started, main leaves its outer loop only at the loop test with
\* isRunning false; an exception of the scan, the detail fetch or the pair
\* selection goes to the catch inside the loop, which sleeps 60 s and goes
\* back to the loop test.
C21_LoopEndsOnlyOnShutdown ==
  /\ [][(pc' = "finally" /\ pc # "finally") =>
          (pc = "fatal" \/ (pc = "outer" /\ ~isRunning))]_vars
  /\ [][(pc \in {"scan", "details", "select"}) =>
          pc' \in {pc, "cycleError", "emptySleep", "details", "select", "episode", "outer"}]_vars
  /\ [][(pc = "cycleError" /\ pc' # pc) =>
          (pc' = "outer" /\ lastSleep' = "sleep(60000)")]_vars
  /\ [][(pc = "outer" /\ pc' # pc /\ isRunning) => pc' = "scan"]_vars

\* C21 witness: the backoff after an error is over and main is still running
C21_Witness ==
  /\ pc = "outer"
  /\ lastSleep = "sleep(60000)"
  /\ isRunning

\* the place of a persisted status in the order of the store's statuses
Rank(status) ==
  CASE status = "PENDING" -> 1
    [] status = "BUY_SENT" -> 2
    [] status = "BOUGHT" -> 3
    [] status = "CLOSED" -> 4
    [] OTHER -> 0

\* C22 as stated: a record becomes CLOSED only from a persisted exit status
\* TAKE_PROFIT or STOP_LOSS.
C22_ExitStatusBeforeClosed ==
  [][\A i \in DOMAIN trades :
       (trades'[i] = "CLOSED" /\ trades[i] # "CLOSED") =>
         trades[i] \in {"TAKE_PROFIT", "STOP_LOSS"}]_vars

\* C22 amended: the persisted status moves only forward through PENDING,
\* BUY_SENT, BOUGHT, CLOSED, one write per step and no step skipped; the
\* record is created as PENDING before the limit buy is placed and becomes
\* BUY_SENT only after the exchange accepted the limit order; the exit
\* reason is no persisted status, it is held by tradingCycle when the record
\* goes from BOUGHT to CLOSED.
C22_StatusMovesForward ==
  /\ [][/\ Len(trades') \in {Len(trades), Len(trades) + 1}
        /\ \A i \in DOMAIN trades :
             trades'[i] = trades[i] \/ Rank(trades'[i]) = Rank(trades[i]) + 1
        /\ Len(trades') = Len(trades) + 1 =>
             /\ trades'[Len(trades')] = "PENDING"
             /\ limitOrd = NoOrder /\ limitOrd' = NoOrder
             /\ \A i \in DOMAIN trades : trades'[i] = trades[i]]_vars
  /\ [][\A i \in DOMAIN trades :
          /\ (trades'[i] = "BUY_SENT" /\ trades[i] = "PENDING") => limitOrd.state # "none"
          /\ (trades'[i] = "CLOSED" /\ trades[i] = "BOUGHT") =>
               sellReason \in {"TAKE_PROFIT", "STOP_LOSS"}]_vars
  /\ [](\A i \in DOMAIN trades : Rank(trades[i]) > 0)

\* C22 witness: a record that went through all four statuses
C22_Witness ==
  /\ pc = "tc_notion"
  /\ trades[tradeId] = "CLOSED"
  /\ sellReason = "TAKE_PROFIT"

\* C23: when db.initDB fails, isRunning is never set to true, no scan,
\* oracle call, order or record creation ever happens, and main still runs
\* its cleanup (the finally block with db.closeDB) before it ends.
StartupUntouched ==
  /\ ~isRunning
  /\ trades = <<>> /\ calls = <<>> /\ trail = <<>> /\ verdict = NoVerdict
  /\ limitOrd = NoOrder /\ mktOrd = NoOrder /\ sellOrd = NoOrder
  /\ own = 0

C23_InitFailureAbortsStartup ==
  /\ [](pc = "fatal" => StartupUntouched)
  /\ [][(pc = "fatal") => (pc' \in {"fatal", "finally"} /\ StartupUntouched')]_vars
  /\ [][(pc = "finally") => (pc' \in {"finally", "done"}
                               /\ UNCHANGED <<isRunning, trades, calls, trail, verdict>>)]_vars
  /\ [][(pc = "done") => (pc' = "done"
                            /\ UNCHANGED <<isRunning, trades, calls, trail, verdict>>)]_vars
  /\ [][(pc' = "done" /\ pc # "done") => pc = "finally"]_vars

C23_Witness == pc = "fatal" /\ ~isRunning /\ trades = <<>>

\* C24 as stated: when a new pair is selected the cycle state is reset to
\* consecutiveLosses = 0, cycleStartTime = now and running = true.
C24_EpisodeResetsRunning ==
  [][(pc = "episode" /\ pc' = "inner") =>
       (consecutiveLosses' = 0 /\ cycleElapsed' = 0 /\ isRunning')]_vars

\* C24 amended: when a new pair is selected consecutiveLosses is reset to 0
\* and cycleStartTime to now, while isRunning is left as it is (it is set
\* once at startup and cleared by a signal, also one that arrived during the
\* selection); the breaker of the new episode trips only on two consecutive
\* stop-losses of that episode.
C24_EpisodeResetsCounters ==
  /\ [][(pc = "episode" /\ pc' # pc) =>
          (pc' = "inner" /\ consecutiveLosses' = 0 /\ cycleElapsed' = 0
                         /\ isRunning' = isRunning)]_vars
  /\ [][(pc' = "breakerSleep" /\ pc # "breakerSleep") => TwoLosses']_vars
  /\ [](pc \in {"inner", "pause"} \cup TradePcs => consecutiveLosses <= Len(outcomes))

\* C24 witness: an episode that starts after the breaker ended the last one
C24_Witness ==
  /\ pc = "inner"
  /\ consecutiveLosses = 0 /\ cycleElapsed = 0 /\ outcomes = <<>>
  /\ trail = <<"sleep(MAX_CYCLE_TIME)", "scanPairs">>

\* (sellPrice - buyPrice - buyPrice*feeRate - sellPrice*feeRate) / buyPrice * 100
\* in units of 0.0001 %, feeRate in units of 0.0001
RealizedPnL(buy, sell, fee) ==
  (((sell - buy) * FeeUnit - (buy + sell) * fee) * 100) \div buy

\* C25: calculateProfitRate(buyPrice, sellPrice, feeRate) is
\* (sellPrice - buyPrice - buyPrice*feeRate - sellPrice*feeRate) / buyPrice * 100
\* for every positive buyPrice, with the fee on both legs; it is 4.8975 for
\* buy 100, sell 105, fee rate 0.0005; and the profit rate that tradingCycle
\* returns for a closed trade is this value for its buy and sell price.
C25_ProfitRateFormula ==
  /\ pc = "fn_calculateProfitRate_done" =>
        /\ fnOut = RealizedPnL(fnIn.buyPrice, fnIn.sellPrice, fnIn.feeRate)
        /\ (fnIn.buyPrice = 100 /\ fnIn.sellPrice = 105 /\ fnIn.feeRate = DEFAULT_FEE_RATE)
             => fnOut = 48975
        /\ (fnIn.feeRate > 0 /\ fnIn.sellPrice > 0) =>
             fnOut < RealizedPnL(fnIn.buyPrice, fnIn.sellPrice, 0)
  /\ (pc = "main_result" /\ tradeResult.result \in {"TAKE_PROFIT", "STOP_LOSS"}) =>
        tradeResult.profitRate = RealizedPnL(buyPrice, sellOrderInfo.price, DEFAULT_FEE_RATE)

\* C25 witness: the rate of the trade bought at 100 and sold at 105
C25_Witness ==
  /\ pc = "fn_calculateProfitRate_done"
  /\ fnIn = [buyPrice |-> 100, sellPrice |-> 105, feeRate |-> DEFAULT_FEE_RATE]
  /\ fnOut = 48975

\* the realized rate of a closed trade, as tradingCycle returns it
C25_RecordedWitness ==
  /\ pc = "main_result" /\ tradeResult.result = "STOP_LOSS"
  /\ tradeResult.profitRate = RealizedPnL(buyPrice, sellOrderInfo.price, DEFAULT_FEE_RATE)
  /\ tradeResult.profitRate < 0

\* the losses that calculateRSI adds up over its window: the rises from a
\* price to the next newer one
RECURSIVE WindowLosses(_, _)
WindowLosses(prices, k) ==
  IF k = 0 THEN 0
  ELSE WindowLosses(prices, k - 1)
       + (IF prices[k + 1] > prices[k] THEN prices[k + 1] - prices[k] ELSE 0)

WindowEqual(prices, period) == \A k \in 1..period : prices[k] = prices[1]
\* the sum of the first `period` prices
RECURSIVE WindowSum(_, _)
WindowSum(prices, k) == IF k = 0 THEN 0 ELSE WindowSum(prices, k - 1) + prices[k]

\* upper >= middle >= lower, and bandwidth = 0 iff the window is constant
BandsInOrder(b, prices, period) ==
  /\ b.kind = "bands"
  /\ SurdSign(SurdMinus(b.middle, b.upper)) <= 0
  /\ SurdSign(SurdMinus(b.middle, b.lower)) >= 0
  /\ (SurdSign(b.bandwidth) = 0) <=> WindowEqual(prices, period)

C28_NullOnlyWhenTooShort ==
  /\ pc \in {"fn_calculateSMA_done", "fn_calculateBollinger_done", "fn_calculateEMA_done"} =>
       ((fnOut = JsNull) <=> (Len(fnIn) < PERIOD))
  /\ pc = "fn_calculateMACD_done" =>
       ((fnOut = JsNull) <=> (Len(fnIn) < MACD_SLOW))

\* what the source does: SMA and EMA return null exactly when the series is
\* too short; Bollinger and MACD also when an average they test is 0
C28_NullAlsoOnZeroAverage ==
  /\ pc \in {"fn_calculateSMA_done", "fn_calculateEMA_done"} =>
       ((fnOut = JsNull) <=> (Len(fnIn) < PERIOD))
  /\ pc = "fn_calculateBollinger_done" =>
       ((fnOut = JsNull) <=> (Len(fnIn) < PERIOD \/ WindowSum(fnIn, PERIOD) = 0))
  /\ pc = "fn_calculateMACD_done" =>
       ((fnOut = JsNull) <=>
          (Len(fnIn) < MACD_SLOW \/ Len(fnIn) < MACD_FAST
             \/ WindowSum(fnIn, Len(fnIn)) = 0))

\* a window of zero prices for which calculateBollinger returns null
C28_ZeroWindow ==
  /\ pc = "fn_calculateBollinger_done"
  /\ Len(fnIn) >= PERIOD /\ WindowSum(fnIn, PERIOD) = 0
  /\ fnOut = JsNull

\* C29: the cancel-and-market-buy fallback is taken only when ORDER_TIMEOUT
\* has elapsed without a fill: tradingCycle calls neither upbit.cancelOrder
\* nor upbit.buyMarket before the timeout has elapsed, also when a status
\* lookup returned the state 'cancel'.
C29_FallbackOnlyAfterTimeout ==
  [][(pc \in {"tc_cancel", "tc_buyMarket"} /\ pc' # pc /\ pc' # "tc_catch") =>
       buyElapsed >= ORDER_TIMEOUT]_vars

\* the fallback was entered on a lookup that returned 'cancel' before the timeout
C29_EarlyFallback ==
  /\ pc = "tc_buyMarket"
  /\ orderInfo.state = "cancel"
  /\ buyElapsed < ORDER_TIMEOUT
  /\ calls # <<>> /\ calls[Len(calls)] = "cancelOrder"

\* the number of places of q that hold op
Count(q, op) == Cardinality({i \in DOMAIN q : q[i] = op})

\* the invocation saw the limit buy filled: it is at db.updateBuyComplete
\* with buyCompleted set, or it made that call right after a lookup of the
\* limit order
FillObserved ==
  \/ pc = "tc_bought" /\ buyCompleted
  \/ \E i \in DOMAIN calls :
       i > 1 /\ calls[i] = "updateBuyComplete" /\ calls[i - 1] = "getOrder(limit)"

\* C30: when a status lookup of the limit buy returns 'done' within the
\* timeout, polling stops at once and the trade goes to BOUGHT with exactly
\* one buy order submitted: neither upbit.cancelOrder nor upbit.buyMarket is
\* called in that tradingCycle invocation.
C30_FillObservedNoFallback ==
  /\ [][(pc = "tc_poll" /\ calls' = Append(calls, "getOrder(limit)")
           /\ orderInfo'.state = "done") =>
          (pc' = "tc_bought" /\ buyCompleted' /\ buyElapsed' = buyElapsed)]_vars
  /\ [][(pc = "tc_bought" /\ buyCompleted /\ pc' # pc) =>
          (pc' = "tc_catch" \/ (pc' = "tc_monitor" /\ trades'[tradeId] = "BOUGHT"))]_vars
  /\ [](buyCompleted => buyElapsed < ORDER_TIMEOUT)
  /\ [](FillObserved =>
          /\ Count(calls, "buyLimit") = 1
          /\ Count(calls, "cancelOrder") = 0
          /\ Count(calls, "buyMarket(SEED_MONEY)") = 0
          /\ mktOrd = NoOrder)

\* C30 witness: a fill seen on the second lookup, the record is BOUGHT
C30_Witness ==
  /\ pc = "tc_monitor"
  /\ FillObserved
  /\ trades[tradeId] = "BOUGHT"
  /\ Count(calls, "getOrder(limit)") = 2

\* C31: the limit order is looked up once per 1 s interval, polling stops at
\* the first lookup that returns 'done' or 'cancel', no lookup starts once
\* ORDER_TIMEOUT has elapsed, the number of lookups is at most
\* ORDER_TIMEOUT / 1 s, and the loop always ends.
C31_PollingBounded ==
  /\ [](pc = "tc_poll" => Count(calls, "getOrder(limit)") = buyElapsed)
  /\ [](Count(calls, "getOrder(limit)") <= ORDER_TIMEOUT)
  /\ [][(pc = "tc_poll" /\ calls' = Append(calls, "getOrder(limit)")) =>
          /\ buyElapsed < ORDER_TIMEOUT
          /\ IF orderInfo'.state \in {"done", "cancel"}
               THEN pc' # "tc_poll"
               ELSE pc' = "tc_poll" /\ buyElapsed' = buyElapsed + 1]_vars
  /\ [](buyElapsed <= ORDER_TIMEOUT)

\* under fair scheduling the buy-fill loop is always left
C31_LoopEnds == (pc = "tc_poll") ~> (pc # "tc_poll")

\* C31 witness: the loop has ended after ORDER_TIMEOUT lookups that all
\* found the order waiting
C31_Witness ==
  /\ pc = "tc_cancel"
  /\ buyElapsed = ORDER_TIMEOUT
  /\ Count(calls, "getOrder(limit)") = ORDER_TIMEOUT
  /\ orderInfo.state = "wait"

\* C32: the market sell is submitted for the full filled volume of the
\* trade: the volume passed to upbit.sellMarket is the total volume bought in
\* that tradingCycle invocation, the volume filled on the limit order before
\* its cancellation included.
C32_SellsAllThatWasBought ==
  [][(pc = "tc_sell" /\ pc' = "tc_confirm") => sellOrd'.volume = own]_vars

\* the fallback bought on both orders and the sell leaves the limit order's
\* fill in the account
C32_LimitFillLeftBehind ==
  /\ pc = "tc_confirm"
  /\ limitOrd.state = "cancel" /\ limitOrd.executed_volume > 0
  /\ mktOrd.state = "done"
  /\ own = limitOrd.executed_volume + mktOrd.executed_volume
  /\ sellOrd.volume = mktOrd.executed_volume

\* C33: over the saveTradeToNotion calls of one process getOrCreateWeeklyDb
\* creates the container of a week label at most once, makes no listing or
\* creation request for a label that is cached, and each call that returns
\* has appended exactly one entry to the container of the current week (a
\* call that throws has appended none).
C33_WeeklyContainerOnce ==
  /\ [](\A l \in Weeks : notionLog.created[l] <= 1)
  /\ [][(pages' # pages \/ notionLog' # notionLog) /\ week' = week =>
          /\ weeklyDbCache[week] # NoId => notionLog'.requests = <<"POST pages">>
          /\ notionLog'.ended = "returned" =>
               /\ pages' = [pages EXCEPT ![week] = @ + 1]
               /\ weeklyDbCache'[week] = week
          /\ notionLog'.ended = "threw" => pages' = pages
          /\ \A l \in Weeks : l # week =>
               (weeklyDbCache'[l] = weeklyDbCache[l] /\ databases'[l] = databases[l])]_vars
  /\ [][\A l \in Weeks : weeklyDbCache[l] # NoId => weeklyDbCache'[l] = weeklyDbCache[l]]_vars

\* C33 witness: the second call of a week in which the first call created
\* the container
C33_Witness ==
  /\ pc = "notion"
  /\ notionLog.created[week] = 1
  /\ pages[week] = 2
  /\ notionLog.requests = <<"POST pages">> /\ notionLog.ended = "returned"

\* C34: within one tradingCycle invocation the buy orders that get filled
\* never add up to more than the allocated capital SEED_MONEY (FULL_VOLUME
\* lots), for every interleaving of the exchange's fills with the poll,
\* cancel and market-buy steps.
C34_BuysWithinSeedMoney == own <= FULL_VOLUME

\* a limit order partly filled after the last lookup, cancelled, and the
\* market buy for the whole of SEED_MONEY filled on top of it
C34_PartFillPlusMarketBuy ==
  /\ limitOrd.state = "cancel" /\ limitOrd.executed_volume > 0
  /\ orderInfo.state = "wait" /\ orderInfo.executed_volume = 0
  /\ mktOrd.state = "done"
  /\ own > FULL_VOLUME

\* C35: under fair scheduling, with every call returning, every tradingCycle
\* invocation eventually returns, for every price sequence, also one that
\* stays strictly between stopLoss and takeProfit for ever.
C35_TradingCycleReturns == (pc \in TradePcs) ~> (pc \notin TradePcs)

\* the monitoring loop with a numeric plan and a price strictly between its
\* stop-loss and its take-profit is always left
C35_MonitoringEnds ==
  (pc = "tc_monitor" /\ plan \in NumericPlans /\ plan.stopLoss < lastPrice
     /\ lastPrice < plan.takeProfit)
    ~> (pc # "tc_monitor")

\* C36: after a shutdown signal has set isRunning to false main eventually
\* leaves its loop and calls db.closeDB, under fair scheduling and with every
\* call returning, whatever main was doing when the signal arrived.
C36_SignalLeadsToCleanup ==
  (signalled /\ ~isRunning /\ pc # "start") ~> (pc = "done")

\* a signal that arrives while a position is monitored leads to the cleanup
C36_SignalWhileMonitoring ==
  (signalled /\ ~isRunning /\ pc = "tc_monitor" /\ plan \in NumericPlans) ~> (pc = "done")

\* C37: the oracle is never invoked with an empty candidate list: when every
\* per-pair detail fetch failed, main goes to the next scan without calling
\* llm.selectBestPair.  main is about to call selectBestPair(pairsData)
\* exactly when it is at "select".
C37_OracleGetsCandidates == pc = "select" => pairsData # {}

\* no reply of the oracle arrives while the list of details is empty
C37_NoReplyWithoutCandidates ==
  [][(pc = "select" /\ pairsData = {}) => verdict' = verdict]_vars

\* C38: tradingCycle is invoked only when the selected pair is found in
\* pairsData, for every reply that holds selectedPair and a confidence.
C38_TradesOnlyOnCandidate ==
  [][(pc = "inner" /\ pc' = "tc_fetch" /\ verdict.kind = "object" /\ verdict.selectedPair
        /\ verdict.confidence # Undefined) => pairDetail # Undefined]_vars

\* a trade is running while pairDetail is undefined
C38_NoTradeWithoutDetail == (pc \in TradePcs) => pairDetail # Undefined

====
